---------------------------- MODULE Spec2Model ----------------------------
(***************************************************************************)
(* A model of the link pipeline of whatsapp_cli_tools:                     *)
(*   extract_links.py  (parse, canonicalize, dedup, validate),             *)
(*   enrich_links.py   (browser enrichment of a stored collection),        *)
(*   update_links.py   (incremental update of links.json).                 *)
(*                                                                         *)
(* Text is modelled as a sequence of tokens.  A token is a delimiter       *)
(* character ("/", "?", "#", ";", "&", "=", "~", "[", "+") or a word that  *)
(* holds no delimiter ("utm_source", "youtube.com", "%20").  No word is    *)
(* the concatenation of other tokens, so two texts are equal exactly when  *)
(* their token sequences are equal.                                        *)
(***************************************************************************)
EXTENDS Integers, Sequences, FiniteSets, TLC

VARIABLES
    \* SpecClean: clean_url applied once and twice
    c_module,       \* whose clean_url: "extract_links" or "update_links"
    c_url,          \* the URL handed to clean_url
    c_once,         \* Some(clean_url(c_url)), or Null
    c_twice,        \* Some(clean_url(clean_url(c_url))), or Null
    \* SpecDedup: one extraction pass
    d_items,        \* the mentions parse_whatsapp_export yields, in order
    d_limit,        \* --limit of extract_links (0: none)
    d_known,        \* existing_urls handed to extract_new_links
    d_links,        \* Some(extract_links(d_items, d_limit)), or Null
    d_new,          \* Some(extract_new_links(d_items, d_known)), or Null
    d_text,         \* SpecParse: the lines of a transcript
    d_parsed,       \* Some(parse_whatsapp_export(d_text)), or Null
    \* SpecValidate: validate_urls
    v_links,        \* the list validate_urls was given, updated in place at the end
    v_conc,         \* concurrency
    v_sem,          \* free slots of the semaphore
    v_pc,           \* where validate_urls stands
    v_tasks,        \* task -> [url, state, result]
    v_results,      \* the local `results`
    v_requests,     \* url -> HEAD requests issued for it (history)
    v_overtaken,    \* a gather task ended before one of a lower index (history)
    \* Spec: update_links.main and enrich_links.main
    prog,           \* the program that runs: "update", "enrich", "none" before the first
    pc,             \* where main stands; "exit" once the process has ended
    args,           \* the parsed command line
    disk,           \* [store, out]: links.json and the -o file of an enrich run
    runs,           \* processes started so far
    web,            \* [pages, faults]: what the browser can load, and what can fail
    exit_code,      \* the exit code of the process, Null while it runs
    existing_links, \* update: the loaded store
    seen_in_batch,  \* update: URLs of the new links found so far
    fidx,           \* update: the next input file
    links,          \* update: all_new_links / new_links; enrich: links
    idx,            \* the loop index i of the enrichment loop (from 0)
    processed,      \* enrich: processed
    browser,        \* "none", "open" or "closed"
    launches,       \* chromium.launch() calls of this process
    contexts,       \* the open browser contexts
    opened,         \* contexts opened by this process so far
    el_pc,          \* where enrich_link stands
    el_link,        \* enrich_link's argument
    el_result,      \* enrich_link's result
    el_ctx,         \* enrich_link's context
    el_page,        \* enrich_link's page, once it is loaded
    g_before,       \* links.json as the process found it (history)
    g_prev,         \* the files of the process before, if it was an update that saved (history)
    g_browsers,     \* the browsers that opened a context for this process (history)
    \* SpecSummarize: summarize.main and call_llm_with_backoff
    s_pc,           \* where main stands; "exit" once the process has ended
    s_args,         \* the parsed command line and the content read
    s_call,         \* call_llm_with_backoff: [model, retries, attempt, last_error]
    s_summary,      \* the local `summary`
    s_cache,        \* .cache/summarize: key -> the summary stored under it
    s_out,          \* what the run printed or wrote as its result
    s_exit,         \* the exit code of the process, Null while it runs
    s_slept,        \* the seconds of the last time.sleep between attempts (history)
    s_runs          \* processes started so far

cleanVars == <<c_module, c_url, c_once, c_twice>>
dedupVars == <<d_items, d_limit, d_known, d_links, d_new, d_text, d_parsed>>
valVars   == <<v_links, v_conc, v_sem, v_pc, v_tasks, v_results, v_requests,
               v_overtaken>>
runVars   == <<prog, args, runs, web, g_before, g_prev>>
updVars   == <<existing_links, seen_in_batch, fidx>>
sessVars  == <<browser, launches, contexts, opened, g_browsers>>
elVars    == <<el_pc, el_link, el_result, el_ctx, el_page>>
mainVars  == <<runVars, pc, disk, exit_code, updVars, links, idx, processed,
               sessVars, elVars>>
sumVars   == <<s_pc, s_args, s_call, s_summary, s_cache, s_out, s_exit, s_slept, s_runs>>
vars      == <<cleanVars, dedupVars, valVars, mainVars, sumVars>>

\* Python's None, a missing file and a value not yet computed are the empty
\* option; a value that is there is the option that holds it
Null == {}
Some(x) == {x}
The(o) == CHOOSE x \in o : TRUE

\* each specification leaves the variables of the others at rest
CleanIdle == c_module = "none" /\ c_url = Null /\ c_once = Null /\ c_twice = Null
DedupIdle ==
    /\ d_items = <<>> /\ d_limit = 0 /\ d_known = {} /\ d_links = Null /\ d_new = Null
    /\ d_text = <<>> /\ d_parsed = Null
ValIdle ==
    /\ v_links = <<>> /\ v_conc = 1 /\ v_sem = 1 /\ v_pc = "idle"
    /\ v_tasks = <<>> /\ v_results = <<>> /\ v_requests = <<>> /\ v_overtaken = FALSE
MainIdle ==
    /\ prog = "none" /\ pc = "exit" /\ args = Null /\ runs = 0 /\ g_before = Null
    /\ web = [pages |-> {}, faults |-> {}] /\ g_prev = Null
    /\ disk = [store |-> Null, out |-> Null] /\ exit_code = Null
    /\ existing_links = <<>> /\ seen_in_batch = {} /\ fidx = 1
    /\ links = <<>> /\ idx = 0 /\ processed = 0
    /\ browser = "none" /\ launches = 0 /\ contexts = {} /\ opened = 0 /\ g_browsers = {}
    /\ el_pc = "idle" /\ el_link = Null /\ el_result = Null /\ el_ctx = Null
    /\ el_page = Null
SumIdle ==
    /\ s_pc = "exit" /\ s_args = Null /\ s_call = Null /\ s_summary = Null
    /\ s_cache = <<>> /\ s_out = Null /\ s_exit = Null /\ s_slept = Null /\ s_runs = 0

(***************************************************************************)
(* Sequence helpers (str.find, str.rfind, str.split, str.rstrip, join).    *)
(***************************************************************************)
MinOf(S) == CHOOSE x \in S : \A y \in S : x <= y
MaxOf(S) == CHOOSE x \in S : \A y \in S : x >= y

\* s.find over a set of tokens, from position `from`; 0 when there is none
Find(s, toks, from) ==
    LET hits == {i \in from..Len(s) : s[i] \in toks}
    IN  IF hits = {} THEN 0 ELSE MinOf(hits)

\* s.rfind(tok); 0 when there is none
RFind(s, tok) ==
    LET hits == {i \in 1..Len(s) : s[i] = tok}
    IN  IF hits = {} THEN 0 ELSE MaxOf(hits)

Has(s, tok) == \E i \in 1..Len(s) : s[i] = tok

\* s[i-1:] and s[:i] of Python (positions from 1; a slice past the end is cut)
From(s, i) == SubSeq(s, i, Len(s))
Upto(s, i) == SubSeq(s, 1, IF i < Len(s) THEN i ELSE Len(s))

\* s.split(tok): the pieces between the occurrences of tok
RECURSIVE Split(_, _)
Split(s, tok) ==
    LET i == Find(s, {tok}, 1)
    IN  IF i = 0 THEN <<s>>
        ELSE <<Upto(s, i - 1)>> \o Split(From(s, i + 1), tok)

\* tok.join(parts)
RECURSIVE Join(_, _)
Join(parts, tok) ==
    IF parts = <<>> THEN <<>>
    ELSE IF Len(parts) = 1 THEN parts[1]
    ELSE parts[1] \o <<tok>> \o Join(Tail(parts), tok)

\* s.rstrip(tok)
RECURSIVE RStrip(_, _)
RStrip(s, tok) ==
    IF s # <<>> /\ s[Len(s)] = tok THEN RStrip(Upto(s, Len(s) - 1), tok) ELSE s

RECURSIVE Flatten(_)
Flatten(ss) == IF ss = <<>> THEN <<>> ELSE ss[1] \o Flatten(Tail(ss))

\* all sequences over S of length at most n
SeqsUpTo(S, n) == UNION {[1..k -> S] : k \in 0..n}

(***************************************************************************)
(* str.lower, urllib.parse.unquote after replace('+', ' '), and            *)
(* urllib.parse.quote_plus, token by token.                                *)
(***************************************************************************)
LowerTok(t) ==
    CASE t = "UTM_Source" -> "utm_source"
      [] t = "linkCode"   -> "linkcode"
      [] t = "linkId"     -> "linkid"
      [] t = "WWW."       -> "www."
      [] t = "YouTube.com" -> "youtube.com"
      [] OTHER            -> t

Lower(s) == [i \in 1..Len(s) |-> LowerTok(s[i])]

\* nv.replace('+', ' ') then unquote: "+" and "%20" both decode to a blank
UnquoteTok(t) ==
    CASE t = "+"   -> " "
      [] t = "%20" -> " "
      [] t = "%2F" -> "/"
      [] t = "%3B" -> ";"
      [] t = "%3F" -> "?"
      [] t = "%5B" -> "["
      [] OTHER     -> t

UnquotePlus(s) == [i \in 1..Len(s) |-> UnquoteTok(s[i])]

\* quote_plus: a blank becomes "+", reserved characters are percent-encoded,
\* letters, digits and "_.-~" stay
QuoteTok(t) ==
    CASE t = " " -> "+"
      [] t = "/" -> "%2F"
      [] t = ";" -> "%3B"
      [] t = "?" -> "%3F"
      [] t = "[" -> "%5B"
      [] t = "=" -> "%3D"
      [] t = "&" -> "%26"
      [] t = "#" -> "%23"
      [] OTHER   -> t

QuotePlus(s) == [i \in 1..Len(s) |-> QuoteTok(s[i])]

(***************************************************************************)
(* urllib.parse as clean_url uses it.                                      *)
(***************************************************************************)
\* s.partition(tok) without the separator: <<s, <<>>>> when there is none
Partition(s, tok) ==
    IF Has(s, tok) THEN <<Upto(s, Find(s, {tok}, 1) - 1), From(s, Find(s, {tok}, 1) + 1)>>
    ELSE <<s, <<>>>>

\* the end of the netloc: the first of "/?#", or the end of the string
NetlocEnd(after) ==
    IF Find(after, {"/", "?", "#"}, 1) = 0 THEN Len(after) + 1
    ELSE Find(after, {"/", "?", "#"}, 1)

\* SplitResult; an unbalanced "[" in netloc raises ValueError
SplitResult(scheme, netloc, pq, fragment) ==
    [raised   |-> Has(netloc, "[") /\ ~Has(netloc, "]"),
     scheme   |-> scheme,
     netloc   |-> netloc,
     path     |-> pq[1],
     query    |-> pq[2],
     fragment |-> fragment]

\* the fragment starts at the first "#", the query at the first "?" before it
SplitRest(scheme, netloc, pf) == SplitResult(scheme, netloc, Partition(pf[1], "?"), pf[2])

SplitNetloc(scheme, after, delim) ==
    SplitRest(scheme, Upto(after, delim - 1), Partition(From(after, delim), "#"))

\* urlsplit: scheme, netloc (after "//") up to the first of "/?#", then
\* fragment and query
urlsplit(url) ==
    IF Upto(Tail(url), 2) = <<"/", "/">>
    THEN SplitNetloc(url[1], From(Tail(url), 3), NetlocEnd(From(Tail(url), 3)))
    ELSE SplitRest(url[1], <<>>, Partition(Tail(url), "#"))

\* _splitparams: the params start at the first ";" of the last path segment
ParamsAt(path) ==
    IF Has(path, "/") THEN Find(path, {";"}, RFind(path, "/"))
    ELSE Find(path, {";"}, 1)

SplitAtParams(path, i) ==
    IF i = 0 THEN <<path, <<>>>>
    ELSE <<Upto(path, i - 1), From(path, i + 1)>>

splitparams(path) == SplitAtParams(path, ParamsAt(path))

ParseResult(s, pp) ==
    [raised |-> s.raised, scheme |-> s.scheme, netloc |-> s.netloc,
     path |-> pp[1], params |-> pp[2], query |-> s.query,
     fragment |-> s.fragment]

SplitParamsOf(s) ==
    ParseResult(s, IF Has(s.path, ";") THEN splitparams(s.path) ELSE <<s.path, <<>>>>)

urlparse(url) == SplitParamsOf(urlsplit(url))

WithFragment(u, fragment) == IF fragment # <<>> THEN u \o <<"#">> \o fragment ELSE u
WithQuery(u, query) == IF query # <<>> THEN u \o <<"?">> \o query ELSE u

urlunsplit(scheme, netloc, path, query, fragment) ==
    WithFragment(
        WithQuery(
            <<scheme>> \o
            (IF netloc # <<>> \/ Upto(path, 2) # <<"/", "/">>
             THEN <<"/", "/">> \o netloc
                  \o (IF path # <<>> /\ path[1] # "/" THEN <<"/">> ELSE <<>>)
                  \o path
             ELSE path),
            query),
        fragment)

urlunparse(scheme, netloc, path, params, query, fragment) ==
    urlunsplit(scheme, netloc,
               IF params # <<>> THEN path \o <<";">> \o params ELSE path,
               query, fragment)

\* parse_qsl(qs, keep_blank_values=True): the (name, value) pairs, decoded
NameValue(piece) ==
    IF Has(piece, "=")
    THEN <<UnquotePlus(Partition(piece, "=")[1]), UnquotePlus(Partition(piece, "=")[2])>>
    ELSE <<UnquotePlus(piece), <<>>>>

NonEmpty(piece) == piece # <<>>

NameValues(pieces) == [i \in 1..Len(pieces) |-> NameValue(pieces[i])]

parse_qsl(qs) ==
    IF qs = <<>> THEN <<>>
    ELSE NameValues(SelectSeq(Split(qs, "&"), NonEmpty))

\* parse_qs: a dict in insertion order, name -> list of values
RECURSIVE DictOf(_, _)
DictOf(pairs, acc) ==
    IF pairs = <<>> THEN acc
    ELSE LET k == pairs[1][1]
             v == pairs[1][2]
             at == {i \in 1..Len(acc) : acc[i].k = k}
         IN  IF at = {} THEN DictOf(Tail(pairs), Append(acc, [k |-> k, v |-> <<v>>]))
             ELSE LET i == CHOOSE j \in at : TRUE
                  IN  DictOf(Tail(pairs),
                             [acc EXCEPT ![i].v = Append(@, v)])

parse_qs(qs) == DictOf(parse_qsl(qs), <<>>)

\* urlencode(d, doseq=True)
EncodeItem(item) ==
    [i \in 1..Len(item.v) |-> QuotePlus(item.k) \o <<"=">> \o QuotePlus(item.v[i])]

urlencode(d) ==
    Join(Flatten([i \in 1..Len(d) |-> EncodeItem(d[i])]), "&")

(***************************************************************************)
(* The canonicalizer: extract_links.clean_url and update_links.clean_url.  *)
(***************************************************************************)
Word(w) == <<w>>

TRACKING_PARAMS ==
    { Word(w) : w \in
      { "utm_source", "utm_medium", "utm_campaign", "utm_content", "utm_term",
        "fbclid", "igsh", "igshid", "gclid", "gclsrc",
        "ref", "rcm", "source", "mc_cid", "mc_eid",
        "trk", "lipi", "licu",
        "tag", "linkCode", "linkId",
        "share", "si" } }

\* a table whose twitter.com and x.com entries allow 'si', a tracking name
ESSENTIAL_PARAMS_si(domain) ==
    CASE domain = <<"youtube.com">>      -> {Word("v"), Word("t"), Word("list"), Word("index")}
      [] domain = <<"youtu.be">>         -> {Word("t")}
      [] domain = <<"twitter.com">>      -> {Word("si")}
      [] domain = <<"x.com">>            -> {Word("si")}
      [] OTHER                           -> {}

\* ESSENTIAL_PARAMS.get(domain, set()) of extract_links.py
ESSENTIAL_PARAMS(domain) ==
    CASE domain = <<"youtube.com">>      -> {Word("v"), Word("t"), Word("list"), Word("index")}
      [] domain = <<"youtu.be">>         -> {Word("t")}
      [] domain = <<"twitter.com">>      -> {Word("s")}
      [] domain = <<"x.com">>            -> {Word("s")}
      [] OTHER                           -> {}

\* ESSENTIAL_PARAMS.get(domain, set()) of update_links.py
update_ESSENTIAL_PARAMS(domain) ==
    CASE domain = <<"youtube.com">>      -> {Word("v"), Word("t"), Word("list"), Word("index")}
      [] domain = <<"youtu.be">>         -> {Word("t")}
      [] OTHER                           -> {}

\* netloc.replace('www.', '').lower()
NotWww(t) == t # "www."
DomainOf(netloc) == Lower(SelectSeq(netloc, NotWww))

\* the filter of the dict comprehension, as a mutant would write it
\* (the name compared as spelled, not lowercased)
KeepParamCaseSensitive(k, essential) ==
    k \notin TRACKING_PARAMS \/ k \in essential

\* k.lower() not in TRACKING_PARAMS or k.lower() in essential
KeepParam(k, essential) ==
    Lower(k) \notin TRACKING_PARAMS \/ Lower(k) \in essential

FilterParams(d, essential) ==
    LET keep(item) == KeepParam(item.k, essential)
    IN  SelectSeq(d, keep)

\* what a mutant would keep: the fragments that begin with "~", and no other
KeptFragmentIfMarked(fragment) ==
    IF fragment # <<>> /\ fragment[1] = "~" THEN fragment ELSE <<>>

\* parsed.fragment if parsed.fragment and not parsed.fragment.startswith('~') else ''
KeptFragment(fragment) ==
    IF fragment # <<>> /\ fragment[1] # "~" THEN fragment ELSE <<>>

CleanParsed(p, essential) ==
    LET new_query == IF p.query # <<>>
                     THEN urlencode(FilterParams(parse_qs(p.query), essential))
                     ELSE <<>>
        fragment  == KeptFragment(p.fragment)
        path      == IF p.path # <<"/">> THEN RStrip(p.path, "/") ELSE p.path
    IN  urlunparse(p.scheme, p.netloc, path, p.params, new_query, fragment)

\* extract_links.clean_url: a URL that does not parse is returned as it is
CleanOrKeep(url, p) ==
    IF p.raised THEN url ELSE CleanParsed(p, ESSENTIAL_PARAMS(DomainOf(p.netloc)))

clean_url(url) == CleanOrKeep(url, urlparse(url))

\* update_links.clean_url
update_CleanOrKeep(url, p) ==
    IF p.raised THEN url ELSE CleanParsed(p, update_ESSENTIAL_PARAMS(DomainOf(p.netloc)))

update_clean_url(url) == update_CleanOrKeep(url, urlparse(url))

(***************************************************************************)
(* SpecClean: clean_url applied to a URL, and again to its result.  The    *)
(* inputs are what URL_PATTERN can match: "http://" and then any run of    *)
(* non-blank characters, here host, path, query and fragment drawn from    *)
(* bounded sets.                                                           *)
(***************************************************************************)
MaxPathLen == 3
MaxParams  == 2

Hosts == { <<"h">>, <<"www.", "youtube.com">>, <<>>, <<"[", "h">> }

PathTokens == {"/", "a", ";"}
Paths == { p \in SeqsUpTo(PathTokens, MaxPathLen) : p = <<>> \/ p[1] = "/" }

Pieces ==
    { <<"utm_source", "=", "wa">>, <<"id", "=", "7">>, <<"UTM_Source", "=", "wa">>,
      <<"linkCode", "=", "1">>, <<"id">>, <<"si", "=", "%20">> }

Queries ==
    {<<>>} \cup { <<"?">> \o Join(ps, "&") : ps \in SeqsUpTo(Pieces, MaxParams) }

Fragments == { <<>>, <<"#">>, <<"#", "~", "x">>, <<"#", "x">> }

\* URL_PATTERN needs at least one character after "http://"
InputUrls ==
    { u \in { <<"http:", "/", "/">> \o h \o p \o q \o f :
                h \in Hosts, p \in Paths, q \in Queries, f \in Fragments } :
        Len(u) > 3 }

\* the clean_url of the module at work
CleanUrlOf(module, url) ==
    IF module = "update_links" THEN update_clean_url(url) ELSE clean_url(url)

InitClean ==
    /\ c_module \in {"extract_links", "update_links"}
    /\ c_url \in InputUrls
    /\ c_once = Null
    /\ c_twice = Null
    /\ DedupIdle /\ ValIdle /\ MainIdle /\ SumIdle

Canonicalize ==
    /\ c_once = Null
    /\ c_once' = Some(CleanUrlOf(c_module, c_url))
    /\ UNCHANGED <<c_module, c_url, c_twice, dedupVars, valVars, mainVars, sumVars>>

Recanonicalize ==
    /\ c_once # Null
    /\ c_twice = Null
    /\ c_twice' = Some(CleanUrlOf(c_module, The(c_once)))
    /\ UNCHANGED <<c_module, c_url, c_once, dedupVars, valVars, mainVars, sumVars>>

NextClean == Canonicalize \/ Recanonicalize

SpecClean == InitClean /\ [][NextClean]_vars

(***************************************************************************)
(* C1 (stated as claimed; refuted by the code): canonicalization is        *)
(* idempotent, clean_url(clean_url(u)) = clean_url(u) for every URL u      *)
(* that parses, in extract_links.py and in update_links.py.                *)
(***************************************************************************)
C1_Idempotent ==
    (c_twice # Null /\ ~urlparse(c_url).raised) => c_twice = c_once

(***************************************************************************)
(* C2: for every URL that parses, the canonical URL's query keeps exactly  *)
(* the parameters whose lowercased name is not a tracking parameter or is  *)
(* in the essential allowlist of the URL's domain (host lowercased, a      *)
(* leading "www." removed), with their values in order, and drops every    *)
(* other parameter; "http://h/a?utm_source=wa&id=7" becomes                *)
(* "http://h/a?id=7".                                                      *)
(***************************************************************************)
ClaimDomain(netloc) ==
    LET l == Lower(netloc)
    IN  IF l # <<>> /\ l[1] = "www." THEN Tail(l) ELSE l

ClaimEssential(module, domain) ==
    IF module = "update_links" THEN update_ESSENTIAL_PARAMS(domain) ELSE ESSENTIAL_PARAMS(domain)

ClaimKept(k, netloc) ==
    Lower(k) \notin TRACKING_PARAMS \/ Lower(k) \in ClaimEssential(c_module, ClaimDomain(netloc))

ValuesOf(pairs, k) ==
    LET isK(nv) == nv[1] = k
        hit == SelectSeq(pairs, isK)
    IN  [i \in 1..Len(hit) |-> hit[i][2]]

NamesOf(pairs) == {pairs[i][1] : i \in 1..Len(pairs)}

ExampleUrl == <<"http:", "/", "/", "h", "/", "a", "?", "utm_source", "=", "wa", "&", "id", "=", "7">>
ExampleClean == <<"http:", "/", "/", "h", "/", "a", "?", "id", "=", "7">>

C2_QueryFilter ==
    (c_once # Null /\ ~urlparse(c_url).raised) =>
        LET pin  == parse_qsl(urlparse(c_url).query)
            pout == parse_qsl(urlparse(The(c_once)).query)
        IN  /\ \A k \in NamesOf(pin) \cup NamesOf(pout) :
                 ValuesOf(pout, k) =
                     IF ClaimKept(k, urlparse(c_url).netloc) THEN ValuesOf(pin, k) ELSE <<>>
            /\ c_url = ExampleUrl => c_once = Some(ExampleClean)

\* a tracking parameter and an ordinary one went in, the ordinary one came out
C2_Witness ==
    /\ c_url = ExampleUrl
    /\ c_once = Some(ExampleClean)

(***************************************************************************)
(* Dicts: link records are Python dicts, here functions from field names.  *)
(***************************************************************************)
\* d[key] = val
Put(d, key, val) == [f \in DOMAIN d \cup {key} |-> IF f = key THEN val ELSE d[f]]

\* d.get(key, default)
Get(d, key, default) == IF key \in DOMAIN d THEN d[key] ELSE default

\* link.update(other)
Update(d, other) ==
    [f \in DOMAIN d \cup DOMAIN other |-> IF f \in DOMAIN other THEN other[f] ELSE d[f]]

Urls(ls) == {ls[i].url : i \in 1..Len(ls)}

(***************************************************************************)
(* Extraction: URL mentions to links, first mention first.                 *)
(* A mention is what parse_whatsapp_export yields:                         *)
(* [url_original, date, shared_by].                                        *)
(***************************************************************************)
\* extract_domain: 'unknown' when urlparse raises
DomainOrUnknown(p) == IF p.raised THEN <<"unknown">> ELSE DomainOf(p.netloc)

extract_domain(url) == DomainOrUnknown(urlparse(url))

\* generate_title: a title made from the URL and its domain, kept symbolic
generate_title(url, domain) == <<"generated:">> \o url

\* the fields extract_links and extract_new_links both give a link
LinkFields(item, url_clean, domain) ==
    [url          |-> url_clean,
     url_original |-> IF item.url_original # url_clean THEN Some(item.url_original) ELSE Null,
     domain       |-> domain,
     title        |-> generate_title(url_clean, domain),
     shared_by    |-> item.shared_by,
     date         |-> item.date]

\* the dict entry extract_links stores for a new canonical URL
ExtractedLink(item, url_clean) ==
    Put(LinkFields(item, url_clean, extract_domain(url_clean)), "status", "pending")

HasUrl(ls, u) == \E i \in 1..Len(ls) : ls[i].url = u
IndexOfUrl(ls, u) == CHOOSE i \in 1..Len(ls) : ls[i].url = u

\* the loop of extract_links as a mutant would write it: a later mention of a
\* known URL overwrites the stored entry
RECURSIVE ExtractLoopLastWins(_, _, _)
AddedLastWins(items, seen_urls, limit) ==
    IF limit # 0 /\ Len(seen_urls) >= limit THEN seen_urls
    ELSE ExtractLoopLastWins(Tail(items), seen_urls, limit)

ExtractLastWins(items, seen_urls, limit, url_clean) ==
    IF HasUrl(seen_urls, url_clean)
    THEN ExtractLoopLastWins(Tail(items),
             [seen_urls EXCEPT ![IndexOfUrl(seen_urls, url_clean)] =
                 ExtractedLink(Head(items), url_clean)],
             limit)
    ELSE AddedLastWins(items, Append(seen_urls, ExtractedLink(Head(items), url_clean)), limit)

ExtractLoopLastWins(items, seen_urls, limit) ==
    IF items = <<>> THEN seen_urls
    ELSE ExtractLastWins(items, seen_urls, limit, clean_url(Head(items).url_original))

\* the loop of extract_links over the parsed items; seen_urls is the dict in
\* insertion order; limit 0 stands for no limit (None and 0 are both falsy)
RECURSIVE ExtractLoop(_, _, _)

\* if limit and len(seen_urls) >= limit: break
Added(items, seen_urls, limit) ==
    IF limit # 0 /\ Len(seen_urls) >= limit THEN seen_urls
    ELSE ExtractLoop(Tail(items), seen_urls, limit)

\* if url_clean in seen_urls: continue; seen_urls[url_clean] = {...}
ExtractItem(items, seen_urls, limit, url_clean) ==
    IF HasUrl(seen_urls, url_clean)
    THEN ExtractLoop(Tail(items), seen_urls, limit)
    ELSE Added(items, Append(seen_urls, ExtractedLink(Head(items), url_clean)), limit)

ExtractLoop(items, seen_urls, limit) ==
    IF items = <<>> THEN seen_urls
    ELSE ExtractItem(items, seen_urls, limit, clean_url(Head(items).url_original))

extract_links(items, limit) == ExtractLoop(items, <<>>, limit)

\* the record extract_new_links appends for a new canonical URL
NewLink(item, url_clean) ==
    Put(LinkFields(item, url_clean, extract_domain(url_clean)), "enriched", FALSE)

\* the loop of extract_new_links
RECURSIVE NewLinksLoop(_, _, _, _)
NewLinksItem(items, existing_urls, seen, new_links, url_clean) ==
    IF url_clean \in existing_urls \/ url_clean \in seen
    THEN NewLinksLoop(Tail(items), existing_urls, seen, new_links)
    ELSE NewLinksLoop(Tail(items), existing_urls, seen \cup {url_clean},
                      Append(new_links, NewLink(Head(items), url_clean)))

NewLinksLoop(items, existing_urls, seen, new_links) ==
    IF items = <<>> THEN new_links
    ELSE NewLinksItem(items, existing_urls, seen, new_links,
                      update_clean_url(Head(items).url_original))

extract_new_links(items, existing_urls) ==
    NewLinksLoop(items, existing_urls, {}, <<>>)

(***************************************************************************)
(* SpecDedup: one extraction pass of each kind over a bounded transcript.  *)
(***************************************************************************)
MaxMentions == 3
MaxLimit    == 2

UrlA      == <<"http:", "/", "/", "h", "/", "a">>
UrlATrack == <<"http:", "/", "/", "h", "/", "a", "/", "?", "utm_source", "=", "wa">>
UrlB      == <<"http:", "/", "/", "h", "/", "b", "?", "id", "=", "7">>

\* what parse_whatsapp_export yields for three URL mentions of a transcript
MentionATrack == [url_original |-> UrlATrack, date |-> "05/08/2025", shared_by |-> "Ana"]
MentionA      == [url_original |-> UrlA,      date |-> "06/08/2025", shared_by |-> "Bob"]
MentionB      == [url_original |-> UrlB,      date |-> "06/08/2025", shared_by |-> "Bob"]
Mentions      == {MentionATrack, MentionA, MentionB}

Transcripts == SeqsUpTo(Mentions, MaxMentions)

InitDedup ==
    /\ d_items \in Transcripts
    /\ d_limit \in 0..MaxLimit
    /\ d_known \in SUBSET {UrlA, UrlB}
    /\ d_links = Null
    /\ d_new = Null
    /\ d_text = <<>> /\ d_parsed = Null
    /\ CleanIdle /\ ValIdle /\ MainIdle /\ SumIdle

RunExtractLinks ==
    /\ d_links = Null
    /\ d_links' = Some(extract_links(d_items, d_limit))
    /\ UNCHANGED <<d_items, d_limit, d_known, d_new, d_text, d_parsed, cleanVars, valVars,
                   mainVars, sumVars>>

RunExtractNewLinks ==
    /\ d_new = Null
    /\ d_new' = Some(extract_new_links(d_items, d_known))
    /\ UNCHANGED <<d_items, d_limit, d_known, d_links, d_text, d_parsed, cleanVars, valVars,
                   mainVars, sumVars>>

NextDedup == RunExtractLinks \/ RunExtractNewLinks

SpecDedup == InitDedup /\ [][NextDedup]_vars

\* C5: first-seen-wins deduplication.  In one extraction pass every canonical
\* URL gets at most one link; the link's shared_by, date and url_original are
\* those of the earliest mention that canonicalizes to it (url_original is
\* None when that mention was canonical already), so no later mention alters
\* it.  A link is produced for every canonical URL the pass takes up: all of
\* them for extract_links unless --limit stopped the pass, and all that are
\* not in the store already for extract_new_links.
FirstMention(items, u, canon(_)) ==
    MinOf({i \in 1..Len(items) : canon(items[i].url_original) = u})

CarriesFirstMention(items, l, canon(_)) ==
    /\ \E i \in 1..Len(items) : canon(items[i].url_original) = l.url
    /\ LET m == items[FirstMention(items, l.url, canon)]
       IN  /\ l.shared_by = m.shared_by
           /\ l.date = m.date
           /\ l.url_original = IF m.url_original = l.url THEN Null ELSE Some(m.url_original)

OneLinkPerUrl(ls) ==
    \A i, j \in 1..Len(ls) : ls[i].url = ls[j].url => i = j

C5_FirstSeenWins ==
    /\ d_links # Null =>
          /\ OneLinkPerUrl(The(d_links))
          /\ \A i \in 1..Len(The(d_links)) : CarriesFirstMention(d_items, The(d_links)[i], clean_url)
          /\ \/ d_limit # 0 /\ Len(The(d_links)) = d_limit
             \/ \A k \in 1..Len(d_items) : HasUrl(The(d_links), clean_url(d_items[k].url_original))
    /\ d_new # Null =>
          /\ OneLinkPerUrl(The(d_new))
          /\ \A i \in 1..Len(The(d_new)) :
                /\ CarriesFirstMention(d_items, The(d_new)[i], update_clean_url)
                /\ The(d_new)[i].url \notin d_known
          /\ \A k \in 1..Len(d_items) :
                LET u == update_clean_url(d_items[k].url_original)
                IN  u \notin d_known => HasUrl(The(d_new), u)

\* the tracked and the plain mention of the same page, by two people on two
\* days, gave one link, Ana's
C5_Witness ==
    /\ Len(d_items) >= 2 /\ d_items[1] = MentionATrack /\ d_items[2] = MentionA
    /\ d_links # Null /\ d_new # Null /\ d_known = {} /\ d_limit = 0
    /\ Len(The(d_links)) = 1 /\ The(d_links)[1].url = UrlA /\ The(d_links)[1].shared_by = "Ana"
    /\ The(d_links)[1].url_original = Some(UrlATrack)
    /\ Len(The(d_new)) = 1 /\ The(d_new)[1].shared_by = "Ana" /\ The(d_new)[1].date = "05/08/2025"

(***************************************************************************)
(* Page metadata: enrich_links.extract_metadata and                        *)
(* update_links.extract_metadata.  A text is a sequence of atomic tokens   *)
(* (<<>> is '', <<" ">> is blank), so the [:500] cut is not modelled.  A   *)
(* page answers each lookup with a text (None and '' are both falsy, and   *)
(* both <<>> here) or fails it: no such element within the 1 s timeout.    *)
(***************************************************************************)
Raise == [raises |-> TRUE, text |-> <<>>]
Text(t) == [raises |-> FALSE, text |-> t]

\* str.strip on the texts of the model
RECURSIVE LStrip(_, _)
LStrip(s, tok) == IF s # <<>> /\ s[1] = tok THEN LStrip(Tail(s), tok) ELSE s
Strip(t) == LStrip(RStrip(t, " "), " ")

\* one guarded lookup: `if val: metadata[key] = val.strip()`
Lookup(metadata, key, val) ==
    IF ~val.raises /\ val.text # <<>> THEN Put(metadata, key, Strip(val.text)) ELSE metadata

\* the lookup is made only `if key not in metadata`
LookupIfMissing(metadata, key, val) ==
    IF key \notin DOMAIN metadata THEN Lookup(metadata, key, val) ELSE metadata

EmptyDict == [f \in {} |-> <<>>]

\* enrich_links.extract_metadata
extract_metadata(page) ==
    LET m1 == Lookup(EmptyDict, "title", page.og_title)
        m2 == LookupIfMissing(m1, "title", page.tw_title)
        m3 == LookupIfMissing(m2, "title", page.title)
        m4 == Lookup(m3, "description", page.og_description)
        m5 == LookupIfMissing(m4, "description", page.description)
    IN  LookupIfMissing(m5, "description", page.tw_description)

\* update_links.extract_metadata (no twitter:description lookup)
update_extract_metadata(page) ==
    LET m1 == LookupIfMissing(EmptyDict, "title", page.og_title)
        m2 == LookupIfMissing(m1, "title", page.tw_title)
        m3 == LookupIfMissing(m2, "title", page.title)
        m4 == LookupIfMissing(m3, "description", page.og_description)
    IN  LookupIfMissing(m4, "description", page.description)

\* metadata.get(key) is truthy
Truthy(d, key) == Get(d, key, <<>>) # <<>>

\* the success path of enrich_links.enrich_link
enrich_success(result, metadata) ==
    LET r1 == IF Truthy(metadata, "title")
              THEN Put(Put(result, "title", metadata["title"]), "title_source", "extracted")
              ELSE result
        r2 == IF Truthy(metadata, "description")
              THEN Put(r1, "description", metadata["description"]) ELSE r1
    IN  Put(Put(r2, "enriched", TRUE), "enrich_status", "success")

\* the success path of update_links.enrich_link
update_enrich_success(result, metadata) ==
    LET r1 == IF Truthy(metadata, "title")
              THEN Put(result, "title", metadata["title"]) ELSE result
        r2 == IF Truthy(metadata, "description")
              THEN Put(r1, "description", metadata["description"]) ELSE r1
    IN  Put(Put(r2, "enriched", TRUE), "enrich_status", "success")

\* except branches that would also blank the title
enrich_failure_blank_title(result, kind) ==
    Put(Put(Put(result, "title", <<>>), "enriched", FALSE), "enrich_status",
        IF kind = "PlaywrightTimeout" THEN "timeout" ELSE "error: e")

\* the except branches: PlaywrightTimeout, and any other Exception (the text
\* of the exception, cut to 100 or 50 characters, is one symbolic message)
enrich_failure(result, kind) ==
    Put(Put(result, "enriched", FALSE), "enrich_status",
        IF kind = "PlaywrightTimeout" THEN "timeout" ELSE "error: e")

\* the calls of enrich_link that can fail, and how
Faults == {"new_context", "new_page", "route", "goto", "goto_timeout"}

Pages ==
    { [og_title |-> Text(<<"OG">>), tw_title |-> Raise, title |-> Text(<<"TAG">>),
       og_description |-> Raise, description |-> Text(<<"MD">>), tw_description |-> Raise],
      [og_title |-> Text(<<" ">>), tw_title |-> Text(<<>>), title |-> Text(<<"TAG">>),
       og_description |-> Raise, description |-> Raise, tw_description |-> Raise] }

(***************************************************************************)
(* Validation: extract_links.validate_url and validate_urls.               *)
(* validate_urls makes one coroutine per link for the as_completed loop    *)
(* (pass 1, results in completion order) and then one more per link for    *)
(* asyncio.gather (pass 2, results in input order).  A task is             *)
(* <<pass, i>>; it waits for the semaphore, issues its HEAD request, and   *)
(* ends with a result.                                                     *)
(***************************************************************************)
MaxLinks == 3
MaxConcurrency == 2

UrlC == <<"http:", "/", "/", "h", "/", "c">>
UrlD == <<"http:", "/", "/", "h", "/", "d">>

ProbeUrls == <<UrlA, UrlB, UrlC, UrlD>>

PendingLink(u) ==
    [url |-> u, url_original |-> Null, domain |-> extract_domain(u),
     title |-> generate_title(u, extract_domain(u)),
     shared_by |-> "Ana", date |-> "05/08/2025", status |-> "pending"]

\* what the network can answer to one HEAD request
Outcomes == {"200", "200 redirected", "404", "TimeoutException", "RequestError", "Exception"}

Redirected(u) == u \o <<"/", "moved">>

\* validate_url without its last handler, as a mutant would write it: an
\* exception that is neither a timeout nor a request error leaves the coroutine
validate_url_narrow(url, outcome) ==
    CASE outcome = "200"              -> [status |-> "valid", status_code |-> Some(200), final_url |-> Null]
      [] outcome = "200 redirected"   -> [status |-> "valid", status_code |-> Some(200), final_url |-> Some(Redirected(url))]
      [] outcome = "404"              -> [status |-> "invalid", status_code |-> Some(404), final_url |-> Null]
      [] outcome = "TimeoutException" -> [status |-> "timeout", status_code |-> Null, final_url |-> Null]
      [] outcome = "RequestError"     -> [status |-> "error", status_code |-> Null, final_url |-> Null]
      [] OTHER                        -> [status |-> "raised", status_code |-> Null, final_url |-> Null]

\* the dict validate_url returns for what the request did
validate_url(url, outcome) ==
    CASE outcome = "200"              -> [status |-> "valid", status_code |-> Some(200), final_url |-> Null]
      [] outcome = "200 redirected"   -> [status |-> "valid", status_code |-> Some(200), final_url |-> Some(Redirected(url))]
      [] outcome = "404"              -> [status |-> "invalid", status_code |-> Some(404), final_url |-> Null]
      [] outcome = "TimeoutException" -> [status |-> "timeout", status_code |-> Null, final_url |-> Null]
      [] outcome = "RequestError"     -> [status |-> "error", status_code |-> Null, final_url |-> Null]
      [] OTHER                        -> [status |-> "error", status_code |-> Null, final_url |-> Null]

\* the semaphore gate as a mutant would write it: no gate
SemaphoreFreeAlways(sem) == TRUE

\* async with semaphore: a task enters when a slot is free
SemaphoreFree(sem) == sem > 0

\* what a mutant would do when a probe ends: keep the slot
semaphore_release_never(sem) == sem

\* the end of `async with semaphore`, reached by return and by exception
semaphore_release(sem) == sem + 1

\* what a mutant would merge: the list the as_completed loop collected
GatherCompletionOrder(tasks, n, collected) == collected

\* asyncio.gather: the results of the pass-2 tasks in input order
Gather(tasks, n, collected) == [i \in 1..n |-> The(tasks[<<2, i>>].result)]

NewTask(u) == [url |-> u, state |-> "waiting", result |-> Null]

TasksOf(pass) == {t \in DOMAIN v_tasks : t[1] = pass}
InFlight == {t \in DOMAIN v_tasks : v_tasks[t].state = "inflight"}

InitValidate ==
    /\ \E n \in 0..MaxLinks : v_links = [i \in 1..n |-> PendingLink(ProbeUrls[i])]
    /\ v_conc \in 1..MaxConcurrency
    /\ v_sem = v_conc
    /\ v_pc = "start"
    /\ v_tasks = <<>>
    /\ v_results = <<>>
    /\ v_requests = [u \in {ProbeUrls[i] : i \in 1..Len(ProbeUrls)} |-> 0]
    /\ v_overtaken = FALSE
    /\ CleanIdle /\ DedupIdle /\ MainIdle /\ SumIdle

\* tasks = [validate_url(client, link['url'], semaphore) ...]; as_completed
\* schedules them all
StartAsCompleted ==
    /\ v_pc = "start"
    /\ v_tasks' = [t \in {<<1, i>> : i \in 1..Len(v_links)} |-> NewTask(v_links[t[2]].url)]
    /\ v_pc' = "as_completed"
    /\ UNCHANGED <<v_links, v_conc, v_sem, v_results, v_requests, v_overtaken,
                   cleanVars, dedupVars, mainVars, sumVars>>

\* a waiting task passes the semaphore and issues client.head(url).  gather
\* starts its coroutines in input order and the semaphore wakes waiters in
\* that order; as_completed starts its coroutines in the order of a set.
Acquire(t) ==
    /\ v_pc \in {"as_completed", "gather"}
    /\ t \in DOMAIN v_tasks
    /\ v_tasks[t].state = "waiting"
    /\ SemaphoreFree(v_sem)
    /\ t[1] = 2 => \A j \in 1..(t[2] - 1) : v_tasks[<<2, j>>].state # "waiting"
    /\ v_sem' = v_sem - 1
    /\ v_tasks' = [v_tasks EXCEPT ![t].state = "inflight"]
    /\ v_requests' = [v_requests EXCEPT ![v_tasks[t].url] = @ + 1]
    /\ UNCHANGED <<v_links, v_conc, v_pc, v_results, v_overtaken, cleanVars, dedupVars, mainVars, sumVars>>

\* the request of task t ends; the task returns its dict (or raises) and
\* leaves the semaphore.  In pass 1 the loop appends the result as it comes.
Respond(t, outcome) ==
    /\ t \in DOMAIN v_tasks
    /\ v_tasks[t].state = "inflight"
    /\ LET r == validate_url(v_tasks[t].url, outcome)
       IN  /\ v_tasks' = [v_tasks EXCEPT ![t].state = "done", ![t].result = Some(r)]
           /\ v_sem' = semaphore_release(v_sem)
           /\ IF r.status = "raised"
              THEN v_pc' = "aborted" /\ UNCHANGED v_results
              ELSE /\ v_pc' = v_pc
                   /\ v_results' = IF t[1] = 1 THEN Append(v_results, r) ELSE v_results
    /\ v_overtaken' = (v_overtaken \/ (t[1] = 2 /\ \E j \in 1..(t[2] - 1) :
                                              v_tasks[<<2, j>>].state # "done"))
    /\ UNCHANGED <<v_links, v_conc, v_requests, cleanVars, dedupVars, mainVars, sumVars>>

\* the as_completed loop has consumed every task; gather starts pass 2
StartGather ==
    /\ v_pc = "as_completed"
    /\ \A t \in TasksOf(1) : v_tasks[t].state = "done"
    /\ v_tasks' = [t \in DOMAIN v_tasks \cup {<<2, i>> : i \in 1..Len(v_links)} |->
                      IF t[1] = 1 THEN v_tasks[t] ELSE NewTask(v_links[t[2]].url)]
    /\ v_pc' = "gather"
    /\ UNCHANGED <<v_links, v_conc, v_sem, v_results, v_requests, v_overtaken,
                   cleanVars, dedupVars, mainVars, sumVars>>

\* results = await gather(...); for link, validation in zip(links, results):
\* link.update(validation); return links
MergeResults ==
    /\ v_pc = "gather"
    /\ \A t \in TasksOf(2) : v_tasks[t].state = "done"
    /\ LET results == Gather(v_tasks, Len(v_links), v_results)
       IN  /\ v_results' = results
           /\ v_links' = [i \in 1..Len(v_links) |->
                            IF i <= Len(results) THEN Update(v_links[i], results[i])
                            ELSE v_links[i]]
    /\ v_pc' = "done"
    /\ UNCHANGED <<v_conc, v_sem, v_tasks, v_requests, v_overtaken,
                   cleanVars, dedupVars, mainVars, sumVars>>

NextValidate ==
    \/ StartAsCompleted
    \/ \E t \in DOMAIN v_tasks : Acquire(t)
    \/ \E t \in DOMAIN v_tasks, o \in Outcomes : Respond(t, o)
    \/ StartGather
    \/ MergeResults

SpecValidate == InitValidate /\ [][NextValidate]_vars

ValidationFields == {"status", "status_code", "final_url"}

\* C6: validator order preservation.  When validate_urls returns, it returns
\* as many links as it was given, in input order, each with the fields it came
\* with, and the validation merged into the link at index i is the result of
\* the probe of that link's own url, whatever the concurrency limit and the
\* order in which the probes ended.
C6_OrderPreserved ==
    v_pc = "done" =>
        /\ Len(v_links) = Cardinality(TasksOf(1))
        /\ \A i \in 1..Len(v_links) :
              LET own == v_tasks[<<2, i>>]
              IN  /\ v_links[i].url = ProbeUrls[i]
                  /\ own.url = v_links[i].url
                  /\ \A f \in ValidationFields : v_links[i][f] = The(own.result)[f]
                  /\ v_links[i].final_url # Null =>
                        v_links[i].final_url = Some(Redirected(v_links[i].url))
                  /\ \A f \in DOMAIN PendingLink(ProbeUrls[i]) \ ValidationFields :
                        v_links[i][f] = PendingLink(ProbeUrls[i])[f]

\* three links under a limit of two, the probes ended out of input order, and
\* the redirected answer is on the link that was redirected
C6_Witness ==
    /\ v_pc = "done" /\ Len(v_links) = 3 /\ v_conc = 2 /\ v_overtaken
    /\ v_links[1].status = "timeout"
    /\ v_links[2].status = "valid" /\ v_links[2].final_url # Null
    /\ v_links[3].status = "invalid"

\* C7: bounded concurrency.  In every state of a validation run, in the
\* as_completed pass and in the gather pass, the probes that have issued their
\* request and have no result yet are at most `concurrency`.
C7_BoundedConcurrency == Cardinality(InFlight) <= v_conc

\* the gate is full and a probe waits at it
C7_Witness ==
    /\ v_pc = "gather" /\ v_conc = 2 /\ Cardinality(InFlight) = 2
    /\ \E t \in DOMAIN v_tasks : v_tasks[t].state = "waiting"

\* C8: per-link independence.  No answer to a probe aborts the run; when the
\* run is over every link has a status among valid, invalid, timeout and
\* error, and it is the status of its own probe, whatever the probes of the
\* other links met.
FinalStatuses == {"valid", "invalid", "timeout", "error"}

C8_PerLinkIndependence ==
    /\ v_pc # "aborted"
    /\ v_pc = "done" =>
          \A i \in 1..Len(v_links) :
              /\ v_links[i].status \in FinalStatuses
              /\ v_links[i].status = The(v_tasks[<<2, i>>].result).status

\* a timeout, a connection error and a 404 next to each other, each on its link
C8_Witness ==
    /\ v_pc = "done" /\ Len(v_links) = 3
    /\ v_links[1].status = "error" /\ v_links[1].final_url = Null
    /\ v_links[2].status = "valid"
    /\ v_links[3].status = "timeout"

(***************************************************************************)
(* The store programs: update_links.main (incremental update) and          *)
(* enrich_links.main (enrich mode), run one after the other against the    *)
(* same links.json.  disk.store is links.json, disk.out the file an        *)
(* enrich run may name with -o; Null is a file that does not exist.        *)
(***************************************************************************)
MaxRuns  == 2
MaxFiles == 2
MaxStart == 1
MaxCap   == 1

CHECKPOINT_EVERY == 10

\* the week files a run can be given; "gone" names a file that does not exist
FileNames == {"week1", "week2", "gone"}
\* what a mutant would do: go on without the test
FileExistsUntested(f) == TRUE

\* f.exists()
FileExists(f) == f # "gone"

\* parse_whatsapp_export(conversation_path.read_text()): the mentions of a file
Transcript(f) ==
    CASE f = "week1" -> <<MentionATrack, MentionA>>
      [] f = "week2" -> <<MentionB, MentionA, MentionB>>
      [] OTHER       -> <<>>

\* stores a run can find: none, one link of an earlier update, or two links
\* of other weeks of which the first was enriched
StoreB  == <<NewLink(MentionB, UrlB)>>
StoreCD ==
    << Put(Put(NewLink([url_original |-> UrlC, date |-> "01/08/2025", shared_by |-> "Eva"], UrlC),
               "enriched", TRUE), "enrich_status", "success"),
       NewLink([url_original |-> UrlD, date |-> "02/08/2025", shared_by |-> "Eva"], UrlD) >>

\* a links.json whose text is not JSON: the file is modelled by the list its
\* text stands for, and this text stands for none
NotJson == <<[not_json |-> TRUE]>>

InitialStores == {Null, Some(StoreB), Some(StoreCD), Some(NotJson)}

\* what a mutant would do: catch the JSONDecodeError and go on with no links
json_loads_lenient(text) ==
    [raises |-> FALSE, value |-> IF text = NotJson THEN <<>> ELSE text]

\* json.loads(path.read_text()): the list, or a JSONDecodeError
json_loads(text) == [raises |-> text = NotJson, value |-> text]

otherSpecs == <<cleanVars, dedupVars, valVars, sumVars>>

InitMain ==
    /\ prog = "none" /\ pc = "exit" /\ args = Null /\ runs = 0 /\ g_before = Null
    /\ web = [pages |-> Pages, faults |-> Faults] /\ g_prev = Null
    /\ disk \in [store : InitialStores, out : {Null}]
    /\ exit_code = Null
    /\ existing_links = <<>> /\ seen_in_batch = {} /\ fidx = 1
    /\ links = <<>> /\ idx = 0 /\ processed = 0
    /\ browser = "none" /\ launches = 0 /\ contexts = {} /\ opened = 0 /\ g_browsers = {}
    /\ el_pc = "idle" /\ el_link = Null /\ el_result = Null /\ el_ctx = Null
    /\ el_page = Null
    /\ CleanIdle /\ DedupIdle /\ ValIdle /\ SumIdle

\* the locals of a fresh process
FreshRun ==
    /\ exit_code' = Null
    /\ existing_links' = <<>> /\ seen_in_batch' = {} /\ fidx' = 1
    /\ links' = <<>> /\ idx' = 0 /\ processed' = 0
    /\ browser' = "none" /\ launches' = 0 /\ contexts' = {} /\ opened' = 0 /\ g_browsers' = {}
    /\ el_pc' = "idle" /\ el_link' = Null /\ el_result' = Null /\ el_ctx' = Null
    /\ el_page' = Null
    /\ g_before' = disk.store
    /\ g_prev' = IF prog = "update" /\ exit_code = Some(0) /\ ~args.dry_run /\ links # <<>>
                 THEN Some(args.input_files) ELSE Null

\* return code
Exit(code) == pc' = "exit" /\ exit_code' = Some(code)

-----------------------------------------------------------------------------
(* update_links.main *)

\* uv run update_links.py FILE... [--enrich] [--dry-run]
U_Start ==
    /\ pc = "exit"
    /\ runs < MaxRuns
    /\ \E n \in 1..MaxFiles, e \in BOOLEAN, d \in BOOLEAN :
         \E fs \in [1..n -> FileNames] :
            args' = [input_files |-> fs, enrich |-> e, dry_run |-> d]
    /\ prog' = "update"
    /\ pc' = "check_files"
    /\ runs' = runs + 1
    /\ FreshRun
    /\ UNCHANGED <<disk, web, otherSpecs>>

\* for f in args.input_files: if not f.exists(): return 2
U_MissingFile ==
    /\ prog = "update" /\ pc = "check_files"
    /\ \E i \in 1..Len(args.input_files) : ~FileExists(args.input_files[i])
    /\ Exit(2)
    /\ UNCHANGED <<runVars, disk, updVars, links, idx, processed, sessVars, elVars, otherSpecs>>

\* what a mutant would load: nothing, as if the file were never there
load_existing_links_none(file) == [raises |-> FALSE, value |-> <<>>]

\* load_existing_links: no file gives ([], set())
load_existing_links(file) ==
    IF file = Null THEN [raises |-> FALSE, value |-> <<>>] ELSE json_loads(The(file))

\* existing_links, existing_urls = load_existing_links(args.links_json); a
\* JSONDecodeError leaves main, and the process ends with a traceback
U_Load ==
    /\ prog = "update" /\ pc = "check_files"
    /\ \A i \in 1..Len(args.input_files) : FileExists(args.input_files[i])
    /\ IF load_existing_links(disk.store).raises
       THEN Exit(1) /\ UNCHANGED existing_links
       ELSE /\ existing_links' = load_existing_links(disk.store).value
            /\ pc' = "extract"
            /\ UNCHANGED exit_code
    /\ UNCHANGED <<runVars, disk, seen_in_batch, fidx, links, idx, processed,
                   sessVars, elVars, otherSpecs>>

\* what a mutant would hand to extract_new_links: the stored URLs only
KnownUrlsStoreOnly(stored, batch) == stored

\* existing_urls | seen_in_batch
KnownUrls(stored, batch) == stored \cup batch

\* what a mutant would save: the new links after the stored ones
MergeAppend(new_links, stored) == stored \o new_links

\* merged = new_links + existing_links
Merge(new_links, stored) == new_links \o stored

\* one turn of `for input_file in args.input_files`
U_ExtractFile ==
    /\ prog = "update" /\ pc = "extract"
    /\ fidx <= Len(args.input_files)
    /\ LET file_links == extract_new_links(Transcript(args.input_files[fidx]),
                                           KnownUrls(Urls(existing_links), seen_in_batch))
       IN  /\ seen_in_batch' = seen_in_batch \cup Urls(file_links)
           /\ links' = links \o file_links
    /\ fidx' = fidx + 1
    /\ UNCHANGED <<runVars, pc, disk, exit_code, existing_links, idx, processed,
                   sessVars, elVars, otherSpecs>>

ExtractionDone == prog = "update" /\ pc = "extract" /\ fidx > Len(args.input_files)

\* if not new_links: return 0
U_NoNewLinks ==
    /\ ExtractionDone
    /\ links = <<>>
    /\ Exit(0)
    /\ UNCHANGED <<runVars, disk, updVars, links, idx, processed, sessVars, elVars, otherSpecs>>

\* what a mutant would do: test --dry-run after the enrichment block
DryRunUnlessEnrich == args.dry_run /\ ~args.enrich

\* if args.dry_run
DryRun == args.dry_run

\* if args.dry_run: ... return 0
U_DryRun ==
    /\ ExtractionDone
    /\ links # <<>>
    /\ DryRun
    /\ Exit(0)
    /\ UNCHANGED <<runVars, disk, updVars, links, idx, processed, sessVars, elVars, otherSpecs>>

\* if args.enrich: with sync_playwright() as p: browser = p.chromium.launch()
U_Launch ==
    /\ ExtractionDone
    /\ links # <<>>
    /\ ~DryRun
    /\ args.enrich
    /\ browser' = "open"
    /\ launches' = launches + 1
    /\ idx' = 0
    /\ pc' = "enrich_loop"
    /\ UNCHANGED <<runVars, disk, exit_code, updVars, links, processed, contexts, opened,
                   g_browsers, elVars, otherSpecs>>

\* not args.enrich: straight to the merge
U_NoEnrich ==
    /\ ExtractionDone
    /\ links # <<>>
    /\ ~DryRun
    /\ ~args.enrich
    /\ pc' = "save"
    /\ UNCHANGED <<runVars, disk, exit_code, updVars, links, idx, processed, sessVars,
                   elVars, otherSpecs>>

\* for i, link in enumerate(new_links): ... enrich_link(browser, link)
U_CallEnrich ==
    /\ prog = "update" /\ pc = "enrich_loop"
    /\ el_pc = "idle"
    /\ idx < Len(links)
    /\ el_link' = links[idx + 1]
    /\ el_result' = links[idx + 1]
    /\ el_pc' = "new_context"
    /\ el_page' = Null
    /\ UNCHANGED <<runVars, pc, disk, exit_code, updVars, links, idx, processed, sessVars,
                   el_ctx, otherSpecs>>

\* new_links[i] = <what enrich_link returned>
U_StoreEnriched ==
    /\ prog = "update" /\ pc = "enrich_loop"
    /\ el_pc = "returned"
    /\ links' = [links EXCEPT ![idx + 1] = el_result]
    /\ idx' = idx + 1
    /\ el_pc' = "idle"
    /\ UNCHANGED <<runVars, pc, disk, exit_code, updVars, processed, sessVars,
                   el_link, el_result, el_ctx, el_page, otherSpecs>>

\* browser.close() after the loop, and the end of the with block
U_CloseBrowser ==
    /\ prog = "update" /\ pc = "enrich_loop"
    /\ el_pc = "idle"
    /\ idx >= Len(links)
    /\ browser' = "closed"
    /\ pc' = "save"
    /\ UNCHANGED <<runVars, disk, exit_code, updVars, links, idx, processed, launches,
                   contexts, opened, g_browsers, elVars, otherSpecs>>

\* merged = new_links + existing_links; args.links_json.write_text(...); return 0
U_Save ==
    /\ prog = "update" /\ pc = "save"
    /\ disk' = [disk EXCEPT !.store = Some(Merge(links, existing_links))]
    /\ Exit(0)
    /\ UNCHANGED <<runVars, updVars, links, idx, processed, sessVars, elVars, otherSpecs>>

-----------------------------------------------------------------------------
(* enrich_link, of enrich_links.py and of update_links.py: the steps of one
   call.  el_result is `result`, el_ctx is `context`. *)

\* what a mutant would do after an except clause: return, the close being
\* the last statement of the try body
AfterExceptNoFinally == "returned"

\* try / except / finally: the finally block runs after an except clause
AfterExcept == "finally"

\* what a mutant would do in the finally block: nothing, the sessions being
\* left to browser.close()
context_close_never(ctxs, c) == ctxs

\* context.close()
context_close(ctxs, c) == ctxs \ {c}

\* browser.new_context(...): the session of one link, in the browser it was
\* asked of
new_context(b, n, link) == [id |-> n, browser |-> b, url |-> link.url]

elFrame == <<runVars, pc, disk, exit_code, updVars, links, idx, processed,
             browser, launches, el_link, otherSpecs>>

\* context = browser.new_context(...), before the try: a failure leaves
\* enrich_link and main, the with block stops the browser, the process ends
EL_NewContext ==
    /\ el_pc = "new_context"
    /\ \/ /\ el_ctx' = new_context(launches, opened + 1, el_link)
          /\ contexts' = contexts \cup {el_ctx'}
          /\ opened' = opened + 1
          /\ g_browsers' = g_browsers \cup {launches}
          /\ el_pc' = "new_page"
          /\ UNCHANGED <<pc, exit_code, browser>>
       \/ /\ "new_context" \in web.faults
          /\ el_pc' = "raised"
          /\ browser' = "closed"
          /\ Exit(1)
          /\ UNCHANGED <<contexts, opened, g_browsers, el_ctx>>
    /\ UNCHANGED <<runVars, disk, updVars, links, idx, processed, launches,
                   el_link, el_result, el_page, otherSpecs>>

\* an except clause: result['enriched'] = False; result['enrich_status'] = ...
EL_Except(kind) ==
    /\ el_result' = enrich_failure(el_result, kind)
    /\ el_pc' = AfterExcept

\* page = context.new_page()
EL_NewPage ==
    /\ el_pc = "new_page"
    /\ \/ el_pc' = "route" /\ UNCHANGED el_result
       \/ "new_page" \in web.faults /\ EL_Except("Exception")
    /\ UNCHANGED <<elFrame, contexts, opened, g_browsers, el_ctx, el_page>>

\* page.route(...)
EL_Route ==
    /\ el_pc = "route"
    /\ \/ el_pc' = "goto" /\ UNCHANGED el_result
       \/ "route" \in web.faults /\ EL_Except("Exception")
    /\ UNCHANGED <<elFrame, contexts, opened, g_browsers, el_ctx, el_page>>

\* page.goto(url, wait_until='domcontentloaded', timeout=timeout);
\* page.wait_for_timeout(2000)
EL_Goto ==
    /\ el_pc = "goto"
    /\ \/ el_pc' = "extract" /\ UNCHANGED el_result
       \/ "goto_timeout" \in web.faults /\ EL_Except("PlaywrightTimeout")
       \/ "goto" \in web.faults /\ EL_Except("Exception")
    /\ UNCHANGED <<elFrame, contexts, opened, g_browsers, el_ctx, el_page>>

\* metadata = extract_metadata(page) and the rest of the try body
EL_Extract ==
    /\ el_pc = "extract"
    /\ \E page \in web.pages :
         /\ el_page' = Some(page)
         /\ el_result' = IF prog = "enrich"
                         THEN enrich_success(el_result, extract_metadata(page))
                         ELSE update_enrich_success(el_result, update_extract_metadata(page))
    /\ el_pc' = "finally"
    /\ UNCHANGED <<elFrame, contexts, opened, g_browsers, el_ctx>>

\* finally: context.close(); return result
EL_Finally ==
    /\ el_pc = "finally"
    /\ contexts' = context_close(contexts, el_ctx)
    /\ el_pc' = "returned"
    /\ UNCHANGED <<elFrame, opened, g_browsers, el_ctx, el_page, el_result>>

-----------------------------------------------------------------------------
(* enrich_links.main *)

\* uv run enrich_links.py [links.json] [-o OUT] [--start N] [--limit N]
\* [--skip-enriched]; --limit 0 is as falsy as no --limit
E_Start ==
    /\ pc = "exit"
    /\ runs < MaxRuns
    /\ \E s \in 0..MaxStart, l \in 0..MaxCap, k \in BOOLEAN, o \in {Null, Some("out")} :
         args' = [start |-> s, limit |-> l, skip_enriched |-> k, output |-> o]
    /\ prog' = "enrich"
    /\ pc' = "check_input"
    /\ runs' = runs + 1
    /\ FreshRun
    /\ UNCHANGED <<disk, web, otherSpecs>>

\* if not args.input_file.exists(): return 2
E_MissingInput ==
    /\ prog = "enrich" /\ pc = "check_input"
    /\ disk.store = Null
    /\ Exit(2)
    /\ UNCHANGED <<runVars, disk, updVars, links, idx, processed, sessVars, elVars, otherSpecs>>

\* links = json.loads(args.input_file.read_text()); a JSONDecodeError leaves
\* main, and the process ends with a traceback
E_Load ==
    /\ prog = "enrich" /\ pc = "check_input"
    /\ disk.store # Null
    /\ IF json_loads(The(disk.store)).raises
       THEN Exit(1) /\ UNCHANGED links
       ELSE /\ links' = json_loads(The(disk.store)).value
            /\ pc' = "launch"
            /\ UNCHANGED exit_code
    /\ UNCHANGED <<runVars, disk, updVars, idx, processed, sessVars, elVars, otherSpecs>>

\* output_path = args.output or args.input_file
output_path == IF args.output = Null THEN "store" ELSE The(args.output)

\* min(end_idx, total), end_idx = args.start + args.limit if args.limit else total
end_idx == IF args.limit # 0 THEN args.start + args.limit ELSE Len(links)
LoopEnd == MinOf({end_idx, Len(links)})

\* browser = p.chromium.launch(headless=True); processed = 0; the range starts
E_Launch ==
    /\ prog = "enrich" /\ pc = "launch"
    /\ browser' = "open"
    /\ launches' = launches + 1
    /\ processed' = 0
    /\ idx' = args.start
    /\ pc' = "enrich_loop"
    /\ UNCHANGED <<runVars, disk, exit_code, updVars, links, contexts, opened, g_browsers,
                   elVars, otherSpecs>>

\* links[i] of Python, as a position from 1: a negative i counts from the end
PyIndex(ls, i) == IF i >= 0 THEN i + 1 ELSE Len(ls) + i + 1

\* no IndexError
IndexInRange(ls, i) == PyIndex(ls, i) \in 1..Len(ls)

\* if args.skip_enriched and link.get('enriched'): continue
SkipLink == args.skip_enriched /\ Get(links[PyIndex(links, idx)], "enriched", FALSE)

E_Skip ==
    /\ prog = "enrich" /\ pc = "enrich_loop"
    /\ el_pc = "idle"
    /\ idx < LoopEnd
    /\ IndexInRange(links, idx)
    /\ SkipLink
    /\ idx' = idx + 1
    /\ UNCHANGED <<runVars, pc, disk, exit_code, updVars, links, processed, sessVars,
                   elVars, otherSpecs>>

\* enriched = enrich_link(browser, link, timeout=args.timeout): the call
E_CallEnrich ==
    /\ prog = "enrich" /\ pc = "enrich_loop"
    /\ el_pc = "idle"
    /\ idx < LoopEnd
    /\ IndexInRange(links, idx)
    /\ ~SkipLink
    /\ el_link' = links[PyIndex(links, idx)]
    /\ el_result' = links[PyIndex(links, idx)]
    /\ el_pc' = "new_context"
    /\ el_page' = Null
    /\ UNCHANGED <<runVars, pc, disk, exit_code, updVars, links, idx, processed, sessVars,
                   el_ctx, otherSpecs>>

\* what a mutant would do: never write before the end of the batch
CheckpointDueNever(n) == FALSE

\* if processed % 10 == 0
CheckpointDue(n) == n % CHECKPOINT_EVERY = 0

\* links[i] = enriched; processed += 1; every tenth processed link the whole
\* list is written to output_path
E_StoreEnriched ==
    /\ prog = "enrich" /\ pc = "enrich_loop"
    /\ el_pc = "returned"
    /\ links' = [links EXCEPT ![PyIndex(links, idx)] = el_result]
    /\ processed' = processed + 1
    /\ disk' = IF CheckpointDue(processed')
               THEN [disk EXCEPT ![output_path] = Some(links')]
               ELSE disk
    /\ idx' = idx + 1
    /\ el_pc' = "idle"
    /\ UNCHANGED <<runVars, pc, exit_code, updVars, sessVars, el_link, el_result, el_ctx, el_page,
                   otherSpecs>>

\* browser.close() after the loop, and the end of the with block
E_CloseBrowser ==
    /\ prog = "enrich" /\ pc = "enrich_loop"
    /\ el_pc = "idle"
    /\ idx >= LoopEnd
    /\ browser' = "closed"
    /\ pc' = "save"
    /\ UNCHANGED <<runVars, disk, exit_code, updVars, links, idx, processed, launches,
                   contexts, opened, g_browsers, elVars, otherSpecs>>

\* output_path.write_text(json.dumps(links, ...)); return 0
E_Save ==
    /\ prog = "enrich" /\ pc = "save"
    /\ disk' = [disk EXCEPT ![output_path] = Some(links)]
    /\ Exit(0)
    /\ UNCHANGED <<runVars, updVars, links, idx, processed, sessVars, elVars, otherSpecs>>

-----------------------------------------------------------------------------
Next ==
    \/ U_Start \/ U_MissingFile \/ U_Load \/ U_ExtractFile \/ U_NoNewLinks \/ U_DryRun
    \/ U_Launch \/ U_NoEnrich \/ U_CallEnrich \/ U_StoreEnriched \/ U_CloseBrowser \/ U_Save
    \/ E_Start \/ E_MissingInput \/ E_Load \/ E_Launch \/ E_Skip \/ E_CallEnrich
    \/ E_StoreEnriched \/ E_CloseBrowser \/ E_Save
    \/ EL_NewContext \/ EL_NewPage \/ EL_Route \/ EL_Goto \/ EL_Extract \/ EL_Finally

Spec == InitMain /\ [][Next]_vars

(***************************************************************************)
(* Claims about the store programs.                                        *)
(***************************************************************************)
\* the links a file holds: none when there is no file or its text is not JSON
StoredLinks(file) == IF file = Null \/ The(file) = NotJson THEN <<>> ELSE The(file)

\* C3: store URL uniqueness.  From no store or a store of pairwise distinct
\* URLs, whatever update and enrich runs follow, over whatever files, with
\* or without --enrich, no two entries of links.json have the same url.
C3_StoreUrlsUnique == OneLinkPerUrl(StoredLinks(disk.store))

\* a second run, over two files that both mention a page the store lacks and
\* one that it has, has added to the store
C3_Witness ==
    /\ runs = 2 /\ prog = "update" /\ pc = "exit" /\ exit_code = Some(0)
    /\ ~args.dry_run /\ args.enrich
    /\ args.input_files = <<"week2", "week1">>
    /\ g_before # Null
    /\ Len(StoredLinks(disk.store)) > Len(StoredLinks(g_before))

\* C4: merge invariant.  An update run that is not a dry run and ends with
\* code 0 leaves a store of K + M entries: first the M new links, one for
\* each canonical URL mentioned in the files and not in the store, in the
\* order of their first mention (file order, then order in the file), then
\* the K entries the run found, unchanged and in their order.  With M = 0
\* the store file is left as it was.
AllMentions == Flatten([i \in 1..Len(args.input_files) |-> Transcript(args.input_files[i])])

ExpectedNewUrls ==
    {update_clean_url(AllMentions[k].url_original) : k \in 1..Len(AllMentions)}
        \ Urls(StoredLinks(g_before))

MergedAs(stored, before, M) ==
    /\ M = 0 => disk.store = g_before
    /\ Len(stored) = Len(before) + M
    /\ \A i \in 1..M :
          /\ stored[i].url \in ExpectedNewUrls
          /\ CarriesFirstMention(AllMentions, stored[i], update_clean_url)
    /\ \A i, j \in 1..M :
          i < j => FirstMention(AllMentions, stored[i].url, update_clean_url)
                     < FirstMention(AllMentions, stored[j].url, update_clean_url)
    /\ SubSeq(stored, M + 1, Len(stored)) = before

C4_MergeInvariant ==
    (prog = "update" /\ pc = "exit" /\ exit_code = Some(0) /\ ~args.dry_run) =>
        MergedAs(StoredLinks(disk.store), StoredLinks(g_before), Cardinality(ExpectedNewUrls))

\* two new links, found in two files, in front of the two stored ones
C4_Witness ==
    /\ prog = "update" /\ pc = "exit" /\ exit_code = Some(0) /\ ~args.dry_run
    /\ args.input_files = <<"week2", "week1">>
    /\ g_before = Some(StoreCD)
    /\ Len(StoredLinks(disk.store)) = 4
    /\ StoredLinks(disk.store)[1].url = UrlB
    /\ StoredLinks(disk.store)[2].url = UrlA
    /\ StoredLinks(disk.store)[3].url = UrlC

\* C9: guaranteed session release.  Whenever no call of enrich_link is under
\* way (none was made, the call returned, or it raised) no context is open:
\* every context a call opened is closed when the call is left, after a
\* success and after a failure of new_page, route or goto alike.
C9_SessionReleased ==
    el_pc \in {"idle", "returned", "raised"} => contexts = {}

\* a call that opened a context and met a timeout has returned
C9_Witness ==
    /\ el_pc = "returned" /\ opened >= 1 /\ contexts = {}
    /\ el_result["enrich_status"] = "timeout"

\* C10: enrichment is serialized.  In an enrich run and in an update run with
\* --enrich at most one context is open at any time, a call of enrich_link
\* starts with none open, and every context of the run belongs to the one
\* browser the run launched.
C10_Serialized ==
    /\ Cardinality(contexts) <= 1
    /\ el_pc = "new_context" => contexts = {}
    /\ launches <= 1
    /\ g_browsers \subseteq {launches}
    /\ \A c \in contexts : c.browser = launches /\ browser = "open"

\* the session of the second link of an update batch is open, the first closed
C10_Witness ==
    /\ prog = "update" /\ el_pc = "goto" /\ idx = 1
    /\ opened = 2 /\ contexts = {el_ctx} /\ el_ctx.id = 2

(***************************************************************************)
(* Claims about failures, checkpoints and repeated runs.                   *)
(***************************************************************************)
\* C11: per-link failure tolerance.  Whatever fails while one link is
\* enriched (opening the session, opening the page, the navigation, anything
\* else), enrich_link returns the link with enriched = FALSE and the status
\* "timeout" or "error: ..." and the batch goes on: no call of enrich_link
\* is left by an exception, and no run that launched a browser ends with a
\* code other than 0.
C11_FailureTolerance ==
    /\ el_pc # "raised"
    /\ (pc = "exit" /\ launches > 0) => exit_code = Some(0)
    /\ (el_pc = "returned" /\ el_result["enrich_status"] # "success") =>
          /\ el_result["enriched"] = FALSE
          /\ el_result["enrich_status"] \in {"timeout", "error: e"}

-----------------------------------------------------------------------------
(* One enrich run over no store, or over one long enough for a checkpoint: one link
   enriched by an earlier run, then CHECKPOINT_EVERY + MaxExtra - 1 links
   that were never visited.  The browser loads one page, and a navigation
   may exceed its timeout or the session fail to open. *)
MaxExtra == 1

LongStoreLen == CHECKPOINT_EVERY + MaxExtra

PageUrl(j) == <<"http:", "/", "/", "h", "/", "p", ToString(j)>>

StoredLink(j) ==
    NewLink([url_original |-> PageUrl(j), date |-> "01/08/2025", shared_by |-> "Eva"],
            PageUrl(j))

LongStore ==
    [j \in 1..LongStoreLen |->
        IF j = 1
        THEN Put(Put(StoredLink(j), "enriched", TRUE), "enrich_status", "success")
        ELSE StoredLink(j)]

OnePage == CHOOSE page \in Pages : ~page.og_description.raises \/ ~page.description.raises

InitCheckpoint ==
    /\ prog = "none" /\ pc = "exit" /\ args = Null /\ g_before = Null
    /\ runs = MaxRuns - 1
    /\ web = [pages |-> {OnePage}, faults |-> {"new_context", "goto_timeout"}]
    /\ g_prev = Null
    /\ disk \in [store : {Null, Some(LongStore)}, out : {Null}]
    /\ exit_code = Null
    /\ existing_links = <<>> /\ seen_in_batch = {} /\ fidx = 1
    /\ links = <<>> /\ idx = 0 /\ processed = 0
    /\ browser = "none" /\ launches = 0 /\ contexts = {} /\ opened = 0 /\ g_browsers = {}
    /\ el_pc = "idle" /\ el_link = Null /\ el_result = Null /\ el_ctx = Null
    /\ el_page = Null
    /\ CleanIdle /\ DedupIdle /\ ValIdle /\ SumIdle

NextEnrich ==
    \/ E_Start \/ E_MissingInput \/ E_Load \/ E_Launch \/ E_Skip \/ E_CallEnrich
    \/ E_StoreEnriched \/ E_CloseBrowser \/ E_Save
    \/ EL_NewContext \/ EL_NewPage \/ EL_Route \/ EL_Goto \/ EL_Extract \/ EL_Finally

SpecCheckpoint == InitCheckpoint /\ [][NextEnrich]_vars

\* the positions the loop has processed so far: visited and not skipped
ProcessedIdx ==
    {i \in (args.start + 1)..idx :
        ~(args.skip_enriched /\ Get(StoredLinks(g_before)[i], "enriched", FALSE))}

\* the result of position i is in the file the run writes to
OnDisk(i) ==
    /\ disk[output_path] # Null
    /\ The(disk[output_path])[i] = links[i]

Unsaved == {i \in ProcessedIdx : ~OnDisk(i)}

FilesOf(fs) == {fs[i] : i \in 1..Len(fs)}

SameFilesAgain ==
    /\ prog = "update" /\ g_prev # Null
    /\ FilesOf(args.input_files) = FilesOf(The(g_prev))

C13_UpdateIdempotent ==
    SameFilesAgain =>
        /\ links = <<>>
        /\ pc \in {"check_files", "extract", "exit"}
        /\ launches = 0
        /\ disk.store = g_before
        /\ pc = "exit" => exit_code = Some(0)

\* the second run, over the two files of the first in the other order, has
\* ended; the first had put both their links in front of the two stored ones
C13_Witness ==
    /\ SameFilesAgain /\ pc = "exit" /\ exit_code = Some(0) /\ ~args.dry_run
    /\ args.input_files = <<"week2", "week1">> /\ The(g_prev) = <<"week1", "week2">>
    /\ Len(StoredLinks(disk.store)) = 4 /\ StoredLinks(disk.store)[1].url = UrlA
    /\ fidx = 3

\* C20: store corruption is fatal.  An update or enrich run that finds a
\* links.json whose text is not JSON launches no browser and writes no file,
\* so links.json keeps its content, and the process ends with a code other
\* than 0.
C20_CorruptStoreFatal ==
    (prog \in {"update", "enrich"} /\ g_before = Some(NotJson)) =>
        /\ disk = [store |-> g_before, out |-> Null]
        /\ launches = 0 /\ opened = 0
        /\ pc \in {"check_files", "check_input", "exit"}
        /\ pc = "exit" => exit_code \in {Some(1), Some(2)}

\* an update run with --enrich, all its files there, has ended on the
\* JSONDecodeError
C20_Witness ==
    /\ prog = "update" /\ g_before = Some(NotJson) /\ args.enrich /\ ~args.dry_run
    /\ args.input_files = <<"week1", "week2">>
    /\ pc = "exit" /\ exit_code = Some(1)

\* C14 (as claimed; the last clause fails on the code): a dry run has no
\* persistent effect.  An update run with --dry-run never writes or creates
\* links.json and never launches a browser or opens a session, whatever it
\* finds and with or without --enrich, and the run exits with code 0.
DryRunLeavesNoTrace ==
    /\ disk.store = g_before
    /\ launches = 0 /\ opened = 0 /\ browser = "none"
    /\ pc \notin {"enrich_loop", "save"}

C14_DryRunNoEffect ==
    (prog = "update" /\ args.dry_run) =>
        /\ DryRunLeavesNoTrace
        /\ pc = "exit" => exit_code = Some(0)

\* the exit code of an update run that returns before its enrichment block:
\* 2 when an input file is missing, 1 (a traceback) when links.json is not
\* JSON, 0 otherwise
EarlyExitCode ==
    IF \E i \in 1..Len(args.input_files) : ~FileExists(args.input_files[i]) THEN 2
    ELSE IF g_before = Some(NotJson) THEN 1
    ELSE 0

\* C14 (amended): an update run with --dry-run never writes or creates
\* links.json and never launches a browser or opens a session, whatever it
\* finds and with or without --enrich; it exits with code 0 when its input
\* files exist and links.json is absent or valid JSON, with code 2 when an
\* input file is missing, and with code 1 when links.json is not JSON.
C14_DryRunNoEffectAmended ==
    (prog = "update" /\ args.dry_run) =>
        /\ DryRunLeavesNoTrace
        /\ pc = "exit" => exit_code = Some(EarlyExitCode)

\* a dry run with --enrich over two files has found new links and returned
C14_Witness ==
    /\ prog = "update" /\ args.dry_run /\ args.enrich
    /\ pc = "exit" /\ exit_code = Some(0)
    /\ Len(links) = 2 /\ disk.store = g_before /\ launches = 0

-----------------------------------------------------------------------------
(* extract_links.main: the third entry point.  The concurrency of
   validate_urls is the matter of SpecValidate; here asyncio.run(...) is one
   step that gives every link the result of its request. *)

\* uv run extract_links.py FILE [-o OUT] [--validate] [--limit N]
X_Start ==
    /\ pc = "exit"
    /\ runs < MaxRuns
    /\ \E f \in FileNames, o \in {Null, Some("out")}, v \in BOOLEAN, l \in 0..MaxLimit :
         args' = [input_file |-> f, output |-> o, validate |-> v, limit |-> l]
    /\ prog' = "extract"
    /\ pc' = "check_input"
    /\ runs' = runs + 1
    /\ FreshRun
    /\ UNCHANGED <<disk, web, otherSpecs>>

\* if not args.input_file.exists(): return 2
X_MissingInput ==
    /\ prog = "extract" /\ pc = "check_input"
    /\ ~FileExists(args.input_file)
    /\ Exit(2)
    /\ UNCHANGED <<runVars, disk, updVars, links, idx, processed, sessVars, elVars, otherSpecs>>

\* links = extract_links(args.input_file, limit=args.limit)
X_Extract ==
    /\ prog = "extract" /\ pc = "check_input"
    /\ FileExists(args.input_file)
    /\ links' = extract_links(Transcript(args.input_file), args.limit)
    /\ pc' = IF args.validate THEN "validate" ELSE "output"
    /\ UNCHANGED <<runVars, disk, exit_code, updVars, idx, processed, sessVars, elVars,
                   otherSpecs>>

\* links = asyncio.run(validate_urls(links, args.concurrency))
X_Validate ==
    /\ prog = "extract" /\ pc = "validate"
    /\ \E os \in [1..Len(links) -> Outcomes] :
         links' = [i \in 1..Len(links) |->
                      Update(links[i], validate_url(links[i].url, os[i]))]
    /\ pc' = "output"
    /\ UNCHANGED <<runVars, disk, exit_code, updVars, idx, processed, sessVars, elVars,
                   otherSpecs>>

\* if args.output: args.output.write_text(output_text) else: print(output_text);
\* return 0
X_Output ==
    /\ prog = "extract" /\ pc = "output"
    /\ disk' = IF args.output # Null
               THEN [disk EXCEPT ![The(args.output)] = Some(links)]
               ELSE disk
    /\ Exit(0)
    /\ UNCHANGED <<runVars, updVars, links, idx, processed, sessVars, elVars, otherSpecs>>

\* one process after the other, of any of the three programs
NextEntry ==
    \/ Next
    \/ X_Start \/ X_MissingInput \/ X_Extract \/ X_Validate \/ X_Output

SpecEntry == InitMain /\ [][NextEntry]_vars

\* a transcript file the run was given does not exist
NoSuchFile(f) == f = "gone"

MissingTranscript ==
    \/ prog = "extract" /\ NoSuchFile(args.input_file)
    \/ prog = "update" /\ \E i \in 1..Len(args.input_files) : NoSuchFile(args.input_files[i])

\* the link-store file the run was given does not exist
MissingStore == prog \in {"update", "enrich"} /\ g_before = Null

\* the process has ended with a code other than 0
FatalExit == pc = "exit" => exit_code \notin {Null, Some(0)}

\* C19 (as claimed; fails on the code for the store of an update run):
\* missing input is fatal and writes nothing.  In extract, enrich and update
\* alike, when a transcript file or the link-store file given to the run
\* does not exist, no step of the run changes a file, and the run ends with
\* a code other than 0.
C19_MissingInputFatal ==
    /\ [][(MissingTranscript \/ MissingStore)' => disk' = disk]_vars
    /\ []((MissingTranscript \/ MissingStore) => FatalExit)

\* the inputs whose absence the programs test: the transcript of an extract
\* run, the transcripts of an update run, the store of an enrich run
MissingRequiredInput ==
    MissingTranscript \/ (prog = "enrich" /\ g_before = Null)

\* C19 (amended): when a transcript file given to an extract or update run,
\* or the link-store file given to an enrich run, does not exist, no step of
\* the run changes a file and the run ends with code 2.  (An update run
\* takes a link-store file that does not exist for an empty store.)
C19_MissingInputFatalAmended ==
    /\ [][MissingRequiredInput' => disk' = disk]_vars
    /\ [](MissingRequiredInput => (pc = "exit" => exit_code = Some(2)))

\* an update run over an existing file and a missing one, with a store to
\* add to, has ended with code 2
C19_Witness ==
    /\ prog = "update" /\ args.input_files = <<"week1", "gone">> /\ ~args.dry_run
    /\ g_before = Some(StoreB) /\ disk.store = g_before
    /\ pc = "exit" /\ exit_code = Some(2)

(***************************************************************************)
(* Claims about the canonical form, the page title and the transcript.     *)
(***************************************************************************)
BeginsWithMarker(fragment) == fragment # <<>> /\ fragment[1] = "~"

\* C17 (as claimed; the code has it the other way round): fragment policy.
\* The canonical URL of a URL that parses has no fragment, unless the
\* fragment of the URL begins with "~": then it has that fragment, as it was.
C17_FragmentPolicy ==
    (c_once # Null /\ ~urlparse(c_url).raised) =>
        urlparse(The(c_once)).fragment =
            IF BeginsWithMarker(urlparse(c_url).fragment)
            THEN urlparse(c_url).fragment ELSE <<>>

\* C17 (amended): the canonical URL of a URL that parses has the fragment of
\* the URL, as it was, unless that fragment begins with "~": then it has
\* none.
C17_FragmentPolicyAmended ==
    (c_once # Null /\ ~urlparse(c_url).raised) =>
        urlparse(The(c_once)).fragment =
            IF BeginsWithMarker(urlparse(c_url).fragment)
            THEN <<>> ELSE urlparse(c_url).fragment

\* a URL with a query and the fragment ~x went through, and lost the fragment
C17_Witness ==
    /\ urlparse(c_url).query # <<>>
    /\ c_once # Null /\ ~urlparse(c_url).raised
    /\ urlparse(c_url).fragment = <<"~", "x">> /\ urlparse(The(c_once)).fragment = <<>>

-----------------------------------------------------------------------------
(* One enrich run over no store or over a store of two links, with every
   page the three title lookups can tell apart: each of og:title,
   twitter:title and <title> fails, or is empty, or blank, or a text. *)
LookupResults(t) == {Raise, Text(<<>>), Text(<<" ">>), Text(<<t>>)}

TitlePages ==
    [og_title : LookupResults("OG"), tw_title : LookupResults("TW"),
     title : LookupResults("TAG"),
     og_description : {Raise}, description : {Text(<<"MD">>)}, tw_description : {Raise}]

InitTitles ==
    /\ prog = "none" /\ pc = "exit" /\ args = Null /\ g_before = Null
    /\ runs = MaxRuns - 1
    /\ web = [pages |-> TitlePages, faults |-> Faults]
    /\ g_prev = Null
    /\ disk \in [store : {Null, Some(StoreCD)}, out : {Null}]
    /\ exit_code = Null
    /\ existing_links = <<>> /\ seen_in_batch = {} /\ fidx = 1
    /\ links = <<>> /\ idx = 0 /\ processed = 0
    /\ browser = "none" /\ launches = 0 /\ contexts = {} /\ opened = 0 /\ g_browsers = {}
    /\ el_pc = "idle" /\ el_link = Null /\ el_result = Null /\ el_ctx = Null
    /\ el_page = Null
    /\ CleanIdle /\ DedupIdle /\ ValIdle /\ SumIdle

SpecTitles == InitTitles /\ [][NextEnrich]_vars

\* the first of the lookups that did not fail and gave a text that is not
\* blank; <<>> when there is none
RECURSIVE FirstNonBlank(_)
FirstNonBlank(vals) ==
    IF vals = <<>> THEN <<>>
    ELSE IF ~Head(vals).raises /\ Strip(Head(vals).text) # <<>> THEN Strip(Head(vals).text)
    ELSE FirstNonBlank(Tail(vals))

ClaimTitle(page) == FirstNonBlank(<<page.og_title, page.tw_title, page.title>>)

\* C18: title fallback chain.  When enrich_link has loaded a page and taken
\* its metadata, the title of the result is the first of og:title,
\* twitter:title and <title>, in that order, that did not fail and is not
\* empty or blank, marked as extracted; when there is none the title the
\* link had is kept.
C18_TitleFallback ==
    (prog = "enrich" /\ el_pc = "finally" /\ el_page # Null) =>
        IF ClaimTitle(The(el_page)) # <<>>
        THEN /\ el_result["title"] = ClaimTitle(The(el_page))
             /\ Get(el_result, "title_source", "none") = "extracted"
        ELSE el_result["title"] = el_link["title"]

-----------------------------------------------------------------------------
(* parse_whatsapp_export, of extract_links.py and of update_links.py (the
   same loop).  A text is a sequence of lines and a line a sequence of words,
   the blanks between the words left out: <<>> is a blank line, ":" the
   colon after the sender, and a URL is one word.  date and shared_by are
   options here, None being what they are before the first message. *)
IsDate(w) == w \in {"05/08/2025", "06/08/2025"}
IsTime(w) == w \in {"9:15", "21:05"}
IsDayPeriod(w) == w \in {"manhã", "tarde", "noite", "madrugada"}

UrlWords == {"http://h/a", "http://h/a/?utm_source=wa", "http://h/b?id=7"}

\* the tokens of a URL word
UrlTokens(w) ==
    CASE w = "http://h/a" -> UrlA
      [] w = "http://h/a/?utm_source=wa" -> UrlATrack
      [] OTHER -> UrlB

IsUrlWord(w) == w \in UrlWords

\* the first colon of a line from position `from` on: the word ":" or the
\* colon inside a URL word ("http" ":" "//..."); 0 when there is none
ColonAt(line, from) == Find(line, {":"} \cup UrlWords, from)

\* ([^:]+):\s*(.+)$ from position `from`, the colon found at `colon`: the
\* sender and the body have at least one character each
SenderAndBody(line, from, colon) ==
    /\ colon >= from
    /\ \/ IsUrlWord(line[colon])
       \/ colon > from /\ colon < Len(line)

\* MESSAGE_PATTERN.match(line):
\* ^(\d{2}/\d{2}/\d{4})\s+\d{1,2}:\d{2}\s+da\s+(?:manhã|tarde|noite|madrugada)\s+-\s+([^:]+):\s*(.+)$
\* whether it matches, where group 2 (the sender) begins, and the colon that
\* ends it
MESSAGE_PATTERN(line) ==
    [matched |-> /\ Len(line) >= 6
                 /\ IsDate(line[1]) /\ IsTime(line[2])
                 /\ line[3] = "da" /\ IsDayPeriod(line[4])
                 /\ line[5] = "-"
                 /\ SenderAndBody(line, 6, ColonAt(line, 6)),
     sender |-> 6, colon |-> ColonAt(line, 6)]

\* match.group(2).strip(): the words up to the colon
Group2(line, m) ==
    SubSeq(line, m.sender, m.colon - 1)
        \o (IF IsUrlWord(line[m.colon]) THEN <<"http">> ELSE <<>>)

\* match.group(3): what follows the colon; of a URL word that held the colon
\* the rest, which URL_PATTERN no longer matches
Group3(line, m) ==
    (IF IsUrlWord(line[m.colon]) THEN <<"//">> ELSE <<>>) \o From(line, m.colon + 1)

\* for url in URL_PATTERN.findall(full_message): yield {...}
RECURSIVE Yielded(_, _, _)
Yielded(words, date, sender) ==
    IF words = <<>> THEN <<>>
    ELSE IF IsUrlWord(Head(words))
    THEN <<[url_original |-> UrlTokens(Head(words)), date |-> date, shared_by |-> sender]>>
            \o Yielded(Tail(words), date, sender)
    ELSE Yielded(Tail(words), date, sender)

\* if current_message: ... yield the URLs of '\n'.join(current_message)
YieldMessage(st) ==
    IF st.current_message # <<>>
    THEN Yielded(Flatten(st.current_message), st.current_date, st.current_sender)
    ELSE <<>>

\* a message-start line: the message before is processed, a new one begins
NewMessage(st, line, m) ==
    [current_date    |-> Some(line[1]),
     current_sender  |-> Some(Group2(line, m)),
     current_message |-> <<Group3(line, m)>>,
     out             |-> st.out \o YieldMessage(st)]

\* any other line: appended to current_message if line.strip()
Continuation(st, line) ==
    IF line # <<>> THEN [st EXCEPT !.current_message = Append(@, line)] ELSE st

ParseLine(st, line, m) ==
    IF m.matched THEN NewMessage(st, line, m) ELSE Continuation(st, line)

RECURSIVE ParseLines(_, _)
ParseLines(st, lines) ==
    IF lines = <<>> THEN st.out \o YieldMessage(st)
    ELSE ParseLines(ParseLine(st, Head(lines), MESSAGE_PATTERN(Head(lines))), Tail(lines))

parse_whatsapp_export(text) ==
    ParseLines([current_date |-> Null, current_sender |-> Null,
                current_message |-> <<>>, out |-> <<>>], text)

(* SpecParse: one transcript of at most MaxLines lines is parsed. *)
MaxLines == 3

HeaderAna   == <<"05/08/2025", "9:15", "da", "manhã", "-", "Ana", ":", "veja", "http://h/a">>
HeaderBob   == <<"06/08/2025", "21:05", "da", "noite", "-", "Bob", "Lima", ":", "oi">>
HeaderPlain == <<"06/08/2025", "21:05", "-", "Bob", ":", "http://h/b?id=7">>
Notice      == <<"05/08/2025", "9:15", "da", "manhã", "-", "aviso", "http://h/a/?utm_source=wa",
                 "http://h/a">>
TextLine    == <<"mais", "http://h/b?id=7">>
BlankLine   == <<>>

Lines == {HeaderAna, HeaderBob, HeaderPlain, Notice, TextLine, BlankLine}

Texts == SeqsUpTo(Lines, MaxLines)

InitParse ==
    /\ d_text \in Texts
    /\ d_parsed = Null
    /\ d_items = <<>> /\ d_limit = 0 /\ d_known = {} /\ d_links = Null /\ d_new = Null
    /\ CleanIdle /\ ValIdle /\ MainIdle /\ SumIdle

Parse ==
    /\ d_parsed = Null
    /\ d_parsed' = Some(parse_whatsapp_export(d_text))
    /\ UNCHANGED <<d_items, d_limit, d_known, d_links, d_new, d_text, cleanVars, valVars,
                   mainVars, sumVars>>

NextParse == Parse

SpecParse == InitParse /\ [][NextParse]_vars

\* the lines of Lines that are message starts, with their date and sender
StartLines == {HeaderAna, HeaderBob, Notice}

HasItem(items, u, date, sender) ==
    \E k \in 1..Len(items) :
        items[k] = [url_original |-> u, date |-> date, shared_by |-> sender]

\* C15 (as claimed; fails on the code): the day-period word is optional.  A
\* line "DD/MM/YYYY H:MM - sender: text" is a message start as the line with
\* "da manhã" is: the URL in the body of HeaderPlain is emitted with the
\* date and the sender of HeaderPlain.
C15_PeriodOptional ==
    d_parsed # Null =>
        \A i \in 1..Len(d_text) :
            d_text[i] = HeaderPlain =>
                HasItem(The(d_parsed), UrlB, Some("06/08/2025"), Some(<<"Bob">>))

\* the URL words of a line that URL_PATTERN finds when the line is part of a
\* message (the colon of Notice is the one of its first URL)
RECURSIVE CountUrls(_)
CountUrls(words) ==
    IF words = <<>> THEN 0
    ELSE (IF IsUrlWord(Head(words)) THEN 1 ELSE 0) + CountUrls(Tail(words))

EmittedFrom(line) == IF line = Notice THEN CountUrls(line) - 1 ELSE CountUrls(line)

RECURSIVE EmittedFromLines(_)
EmittedFromLines(text) ==
    IF text = <<>> THEN 0 ELSE EmittedFrom(Head(text)) + EmittedFromLines(Tail(text))

FirstStart(text) ==
    LET starts == {j \in 1..Len(text) : text[j] \in StartLines}
    IN  IF starts = {} THEN Len(text) + 1 ELSE MinOf(starts)

\* C16: the lines before the first message start are dropped.  The mentions
\* are those of the URLs from the first message start on, none comes from a
\* line before it, and every mention has a date and a sender.
C16_PreambleDropped ==
    d_parsed # Null =>
        /\ Len(The(d_parsed)) = EmittedFromLines(From(d_text, FirstStart(d_text)))
        /\ \A k \in 1..Len(The(d_parsed)) :
              The(d_parsed)[k].date # Null /\ The(d_parsed)[k].shared_by # Null

(***************************************************************************)
(* SpecDomain: the extraction passes over mentions whose hosts put "www."  *)
(* in upper case, at the start and inside the host.                        *)
(***************************************************************************)
DomainHosts ==
    { <<"www.", "h">>, <<"WWW.", "h">>, <<"a.", "www.", "h">>, <<"www.", "YouTube.com">>,
      <<"h">> }

HostMention(host) ==
    [url_original |-> <<"http:", "/", "/">> \o host \o <<"/", "a">>,
     date |-> "05/08/2025", shared_by |-> "Ana"]

InitDomain ==
    /\ d_items \in SeqsUpTo({HostMention(h) : h \in DomainHosts}, MaxMentions)
    /\ d_limit = 0
    /\ d_known = {}
    /\ d_links = Null
    /\ d_new = Null
    /\ d_text = <<>> /\ d_parsed = Null
    /\ CleanIdle /\ ValIdle /\ MainIdle /\ SumIdle

SpecDomain == InitDomain /\ [][NextDedup]_vars

\* the host of a URL "http://host/..." as written
HostOf(url) == urlparse(url).netloc

DomainAsClaimed(ls) ==
    \A i \in 1..Len(ls) : ls[i].domain = ClaimDomain(HostOf(ls[i].url))

\* C21 (as claimed; fails on the code): the domain of every produced link is
\* the host of its URL in lower case with only a leading "www." removed,
\* whatever the letter case of the host; a "www." that is not at the start
\* of the host stays.
C21_DomainDerivation ==
    /\ d_links # Null => DomainAsClaimed(The(d_links))
    /\ d_new # Null => DomainAsClaimed(The(d_new))

(***************************************************************************)
(* summarize.py: main, the summary cache and call_llm_with_backoff.        *)
(* A summary is [by, of]: the model that generated the text and the        *)
(* content it summarizes.  A model name is a sequence of tokens, "/" and   *)
(* "_" being tokens of their own.                                          *)
(***************************************************************************)
MaxSumRuns == 2
MaxRetries == 2

DEFAULT_MODEL == <<"gemini-2.5-pro">>
FallbackModel == <<"gemini-2.5-flash-lite">>
ModelOptions == {Null, Some(<<"org", "/", "m">>)}

\* --input: two files that exist, one that does not, and no --input with a
\* terminal as stdin
Inputs == {"week.txt", "notes.txt", "gone.txt", "tty"}

\* validate_input of the content read: notes.txt has no line that begins
\* with a date
validate_input(input) == input = "week.txt"

\* the `retry in N` of an error message, when it has one
RetryHints == {Null, Some(0), Some(3)}

\* the fraction --retry_jitter in percent
Jitters == {0, 50}

SumArgs ==
    [input : Inputs, skip_validation : BOOLEAN, estimate : BOOLEAN, no_cache : BOOLEAN,
     model : ModelOptions, fallback_model : {Null, Some(FallbackModel)},
     retries : 1..MaxRetries, retry_base : {2}, retry_max : {2, 6},
     retry_jitter : Jitters, pre_sleep : {0}, api_key : BOOLEAN]

\* model = args.model or DEFAULT_MODELS[args.provider]
ModelOf(a) == IF a.model # Null THEN The(a.model) ELSE DEFAULT_MODEL

\* hashlib.md5(content.encode()).hexdigest()[:12]: one hash per content
ContentHash(input) == [md5 |-> input]

\* model.replace('/', '_')
SlashToUnderscore(t) == IF t = "/" THEN "_" ELSE t
ReplaceSlash(model) == [i \in 1..Len(model) |-> SlashToUnderscore(model[i])]

get_cache_path(content_hash, provider, model) ==
    [hash |-> content_hash, provider |-> provider, model |-> ReplaceSlash(model)]

\* get_cached_result: data.get('summary') of the file, None when there is none
get_cached_result(cache, input, provider, model) ==
    IF get_cache_path(ContentHash(input), provider, model) \in DOMAIN cache
    THEN Some(cache[get_cache_path(ContentHash(input), provider, model)].summary)
    ELSE Null

\* save_to_cache: write_text of the record
save_to_cache(cache, input, summary, provider, model) ==
    Put(cache, get_cache_path(ContentHash(input), provider, model),
        [content_hash |-> ContentHash(input), provider |-> provider, model |-> model,
         summary |-> summary])

Min2(a, b) == IF a <= b THEN a ELSE b
Max2(a, b) == IF a >= b THEN a ELSE b

RECURSIVE Pow2(_)
Pow2(n) == IF n = 0 THEN 1 ELSE 2 * Pow2(n - 1)

\* wait_time = min(retry_base * 2 ** attempt, retry_max), replaced by
\* min(N + 5, retry_max) when the message says `retry in N`
Backoff(a, attempt, hint) ==
    IF hint # Null THEN Min2(The(hint) + 5, a.retry_max)
    ELSE Min2(a.retry_base * Pow2(attempt), a.retry_max)

\* max(1, int(random.uniform(w - delta, w + delta))) with delta = w * jitter:
\* uniform returns a value from w - delta to w + delta (the upper end may be
\* returned, by rounding), int cuts the fraction
Jittered(w, pct) ==
    { Max2(1, k) : k \in ((w * (100 - pct)) \div 100)..((w * (100 + pct)) \div 100) }

\* the seconds call_llm_with_backoff may sleep after a failed attempt
WaitTimes(a, attempt, hint) ==
    IF a.retry_jitter > 0 THEN Jittered(Backoff(a, attempt, hint), a.retry_jitter)
    ELSE {Backoff(a, attempt, hint)}

sumFrame == <<cleanVars, dedupVars, valVars, mainVars>>

InitSummarize ==
    /\ s_pc = "exit" /\ s_args = Null /\ s_call = Null /\ s_summary = Null
    /\ s_cache = <<>> /\ s_out = Null /\ s_exit = Null /\ s_slept = Null /\ s_runs = 0
    /\ CleanIdle /\ DedupIdle /\ ValIdle /\ MainIdle

S_Exit(code) == s_pc' = "exit" /\ s_exit' = Some(code)

\* a new process: args = parser.parse_args()
S_Start ==
    /\ s_pc = "exit"
    /\ s_runs < MaxSumRuns
    /\ \E a \in SumArgs : s_args' = Some(a)
    /\ s_runs' = s_runs + 1
    /\ s_pc' = "read"
    /\ s_call' = Null /\ s_summary' = Null /\ s_out' = Null /\ s_exit' = Null
    /\ s_slept' = Null
    /\ UNCHANGED <<s_cache, sumFrame>>

\* content = Path(args.input).read_text(), or stdin
S_ReadInput ==
    /\ s_pc = "read"
    /\ IF The(s_args).input = "gone.txt" THEN S_Exit(2)
       ELSE IF The(s_args).input = "tty" THEN S_Exit(1)
       ELSE s_pc' = "validate" /\ UNCHANGED s_exit
    /\ UNCHANGED <<s_args, s_call, s_summary, s_cache, s_out, s_slept, s_runs, sumFrame>>

S_Validate ==
    /\ s_pc = "validate"
    /\ IF ~The(s_args).skip_validation /\ ~validate_input(The(s_args).input)
       THEN S_Exit(1)
       ELSE s_pc' = "estimate" /\ UNCHANGED s_exit
    /\ UNCHANGED <<s_args, s_call, s_summary, s_cache, s_out, s_slept, s_runs, sumFrame>>

\* --estimate prints the cost and returns
S_Estimate ==
    /\ s_pc = "estimate"
    /\ IF The(s_args).estimate
       THEN S_Exit(0) /\ s_out' = Some([estimate_for |-> ModelOf(The(s_args))])
       ELSE s_pc' = "cache" /\ UNCHANGED <<s_exit, s_out>>
    /\ UNCHANGED <<s_args, s_call, s_summary, s_cache, s_slept, s_runs, sumFrame>>

\* if not args.no_cache: cached = get_cached_result(...); if cached: print, return 0
S_CacheLookup ==
    /\ s_pc = "cache"
    /\ IF ~The(s_args).no_cache
          /\ get_cached_result(s_cache, The(s_args).input, "google", ModelOf(The(s_args))) # Null
       THEN /\ s_out' = get_cached_result(s_cache, The(s_args).input, "google",
                                          ModelOf(The(s_args)))
            /\ S_Exit(0)
       ELSE s_pc' = "key" /\ UNCHANGED <<s_exit, s_out>>
    /\ UNCHANGED <<s_args, s_call, s_summary, s_cache, s_slept, s_runs, sumFrame>>

\* the API key check, then the first call_llm_with_backoff
S_CheckKey ==
    /\ s_pc = "key"
    /\ IF ~The(s_args).api_key
       THEN S_Exit(1) /\ UNCHANGED s_call
       ELSE /\ s_pc' = "call"
            /\ s_call' = Some([model |-> ModelOf(The(s_args)), retries |-> The(s_args).retries,
                               pre_sleep |-> The(s_args).pre_sleep, attempt |-> 0,
                               fallback |-> FALSE])
            /\ UNCHANGED s_exit
    /\ UNCHANGED <<s_args, s_summary, s_cache, s_out, s_slept, s_runs, sumFrame>>

\* return call_fn(messages, model, max_tokens)
S_AttemptOk ==
    /\ s_pc = "call"
    /\ s_summary' = Some([by |-> The(s_call).model, of |-> The(s_args).input])
    /\ s_pc' = "save"
    /\ UNCHANGED <<s_args, s_call, s_cache, s_out, s_exit, s_slept, s_runs, sumFrame>>

\* except Exception: the last attempt ends the loop and raises last_error;
\* any other sleeps wait_time and tries again
S_AttemptFails ==
    /\ s_pc = "call"
    /\ IF The(s_call).attempt >= The(s_call).retries - 1
       THEN s_pc' = "failed" /\ UNCHANGED <<s_call, s_slept>>
       ELSE /\ \E hint \in RetryHints :
                 \E w \in WaitTimes(The(s_args), The(s_call).attempt, hint) :
                     s_slept' = Some(w)
            /\ s_call' = Some([The(s_call) EXCEPT !.attempt = @ + 1])
            /\ UNCHANGED s_pc
    /\ UNCHANGED <<s_args, s_summary, s_cache, s_out, s_exit, s_runs, sumFrame>>

\* except Exception as e: if args.fallback_model: call_llm_with_backoff(...)
S_Fallback ==
    /\ s_pc = "failed"
    /\ ~The(s_call).fallback
    /\ The(s_args).fallback_model # Null
    /\ s_call' = Some([model |-> The(The(s_args).fallback_model),
                       retries |-> Max2(3, The(s_args).retries),
                       pre_sleep |-> Max2(10, The(s_args).pre_sleep), attempt |-> 0,
                       fallback |-> TRUE])
    /\ s_pc' = "call"
    /\ s_slept' = Null
    /\ UNCHANGED <<s_args, s_summary, s_cache, s_out, s_exit, s_runs, sumFrame>>

\* no fallback model, or the fallback failed too: return 3
S_ApiError ==
    /\ s_pc = "failed"
    /\ The(s_call).fallback \/ The(s_args).fallback_model = Null
    /\ S_Exit(3)
    /\ UNCHANGED <<s_args, s_call, s_summary, s_cache, s_out, s_slept, s_runs, sumFrame>>

\* the model name save_to_cache files the summary under, as a mutant would
\* choose it: the model that answered
SavedUnderCaller == The(s_call).model

\* save_to_cache(content, summary, args.provider, model)
SavedUnder == ModelOf(The(s_args))

\* if not args.no_cache: save_to_cache(...); then the output, return 0
S_SaveAndOutput ==
    /\ s_pc = "save"
    /\ s_cache' = IF ~The(s_args).no_cache
                  THEN save_to_cache(s_cache, The(s_args).input, The(s_summary), "google",
                                     SavedUnder)
                  ELSE s_cache
    /\ s_out' = s_summary
    /\ S_Exit(0)
    /\ UNCHANGED <<s_args, s_call, s_summary, s_slept, s_runs, sumFrame>>

NextSummarize ==
    \/ S_Start \/ S_ReadInput \/ S_Validate \/ S_Estimate \/ S_CacheLookup \/ S_CheckKey
    \/ S_AttemptOk \/ S_AttemptFails \/ S_Fallback \/ S_ApiError \/ S_SaveAndOutput

SpecSummarize == InitSummarize /\ [][NextSummarize]_vars

\* C22 (as claimed; fails on the code): retry_max bounds every wait between
\* two attempts of call_llm_with_backoff, whatever the attempt number,
\* retry_base, the jitter fraction and the delay the server suggested.
C22_WaitBounded ==
    s_slept # Null => The(s_slept) <= The(s_args).retry_max

\* C30 (as claimed; fails on the code): every cache entry holds a summary
\* that the model of its key produced, and a run answered from the cache
\* prints a summary its own model produced.
C30_CacheConsistent ==
    /\ \A path \in DOMAIN s_cache : s_cache[path].summary.by = s_cache[path].model
    /\ (s_pc = "exit" /\ s_exit = Some(0) /\ s_out # Null /\ s_summary = Null
            /\ ~The(s_args).estimate)
          => The(s_out).by = ModelOf(The(s_args))

(***************************************************************************)
(* SpecRange: one enrich run over a store of none, two or no links, with   *)
(* any --start the command line takes, negative ones too.                  *)
(***************************************************************************)
MaxBack == 1

\* uv run enrich_links.py --start N, N any int
E_StartAny ==
    /\ pc = "exit"
    /\ runs < MaxRuns
    /\ \E s \in (0 - MaxBack)..MaxStart, l \in 0..MaxCap, k \in BOOLEAN,
          o \in {Null, Some("out")} :
         args' = [start |-> s, limit |-> l, skip_enriched |-> k, output |-> o]
    /\ prog' = "enrich"
    /\ pc' = "check_input"
    /\ runs' = runs + 1
    /\ FreshRun
    /\ UNCHANGED <<disk, web, otherSpecs>>

\* link = links[i] with i below -len(links): the IndexError leaves main, the
\* with block stops the browser, the process ends with a traceback
E_IndexError ==
    /\ prog = "enrich" /\ pc = "enrich_loop"
    /\ el_pc = "idle"
    /\ idx < LoopEnd
    /\ ~IndexInRange(links, idx)
    /\ browser' = "closed"
    /\ Exit(1)
    /\ UNCHANGED <<runVars, disk, updVars, links, idx, processed, launches, contexts, opened,
                   g_browsers, elVars, otherSpecs>>

InitRange ==
    /\ prog = "none" /\ pc = "exit" /\ args = Null /\ runs = MaxRuns - 1 /\ g_before = Null
    /\ web = [pages |-> {OnePage}, faults |-> {"goto_timeout"}] /\ g_prev = Null
    /\ disk \in [store : {Null, Some(<<>>), Some(StoreCD)}, out : {Null}]
    /\ exit_code = Null
    /\ existing_links = <<>> /\ seen_in_batch = {} /\ fidx = 1
    /\ links = <<>> /\ idx = 0 /\ processed = 0
    /\ browser = "none" /\ launches = 0 /\ contexts = {} /\ opened = 0 /\ g_browsers = {}
    /\ el_pc = "idle" /\ el_link = Null /\ el_result = Null /\ el_ctx = Null
    /\ el_page = Null
    /\ CleanIdle /\ DedupIdle /\ ValIdle /\ SumIdle

NextRange ==
    \/ E_StartAny \/ E_MissingInput \/ E_Load \/ E_Launch \/ E_Skip \/ E_CallEnrich
    \/ E_IndexError \/ E_StoreEnriched \/ E_CloseBrowser \/ E_Save
    \/ EL_NewContext \/ EL_NewPage \/ EL_Route \/ EL_Goto \/ EL_Extract \/ EL_Finally

SpecRange == InitRange /\ [][NextRange]_vars

\* the index range [start, start + limit) of the run, [start, len) without a cap
RangeOf(n) ==
    {i \in 0..(n - 1) : /\ i >= args.start
                        /\ (args.limit # 0 => i < args.start + args.limit)}

Untouched(before, i) ==
    \/ i \notin RangeOf(Len(before))
    \/ args.skip_enriched /\ Get(before[i + 1], "enriched", FALSE)

\* C23 (as claimed; fails on the code): whatever the start index, the cap and
\* the skip setting, an enrich run that ends keeps the store's length, the
\* order and the url of every entry, writes back unchanged every entry
\* outside [start, start + limit) and every skipped entry, and processes
\* each entry of the range at most once.
C23_OnlyTargetsChange ==
    (prog = "enrich" /\ pc = "exit" /\ exit_code = Some(0)) =>
        /\ disk[output_path] # Null
        /\ Len(The(disk[output_path])) = Len(The(g_before))
        /\ \A i \in 0..(Len(The(g_before)) - 1) :
              /\ The(disk[output_path])[i + 1].url = The(g_before)[i + 1].url
              /\ Untouched(The(g_before), i) =>
                    The(disk[output_path])[i + 1] = The(g_before)[i + 1]
        /\ processed <= Cardinality(RangeOf(Len(The(g_before))))

\* C24 (as claimed; fails on the code): each link is probed exactly once per
\* validation run.  When validate_urls returns, one HEAD request has been
\* issued for the url of every input link, the progress pass adding none.
C24_ProbedOnce ==
    v_pc = "done" => \A i \in 1..Len(v_links) : v_requests[v_links[i].url] = 1

(***************************************************************************)
(* Validation under the scheduling of the event loop: a coroutine that can *)
(* run does run, and every request ends, by an answer or by a failure      *)
(* (the 10 s timeout at the latest).                                       *)
(***************************************************************************)
\* where the run stands: every step of validate_urls changes it
Progress == <<v_pc, [t \in DOMAIN v_tasks |-> v_tasks[t].state]>>

SpecValidateFair == InitValidate /\ [][NextValidate]_vars /\ WF_Progress(NextValidate)

\* C25: validation terminates.  For every list of links and every
\* concurrency limit from 1 on, validate_urls returns in the end, and when it
\* has returned every slot of the semaphore that was taken is free again,
\* also after probes that failed.
C25_Terminates ==
    /\ <>(v_pc = "done")
    /\ [](v_pc = "done" => v_sem = v_conc /\ InFlight = {})

\* three links under a limit of one: every probe had to wait for the one
\* before it, two of the second pass failed, and validate_urls has returned
\* with the slot free
C25_Witness ==
    /\ v_pc = "done" /\ Len(v_links) = 3 /\ v_conc = 1 /\ v_sem = 1
    /\ v_links[1].status = "error" /\ v_links[2].status = "timeout"
    /\ v_requests[v_links[3].url] > 0

(***************************************************************************)
(* SpecCrash: the enrich run of SpecCheckpoint with Path.write_text in its *)
(* two steps, open(path, 'w') that empties the file and the write of the   *)
(* text, and a process that can be killed in any state.                    *)
(***************************************************************************)
\* open(path, 'w'): the file is there and empty, which is no JSON text
open_w(d, path) == [d EXCEPT ![path] = Some(NotJson)]

\* f.write(json.dumps(links)); f.close()
write(d, path, ls) == [d EXCEPT ![path] = Some(ls)]

\* links[i] = enriched; processed += 1; on every tenth the file is opened
K_StoreEnriched ==
    /\ prog = "enrich" /\ pc = "enrich_loop"
    /\ el_pc = "returned"
    /\ links' = [links EXCEPT ![PyIndex(links, idx)] = el_result]
    /\ processed' = processed + 1
    /\ IF CheckpointDue(processed')
       THEN disk' = open_w(disk, output_path) /\ pc' = "checkpoint" /\ UNCHANGED idx
       ELSE idx' = idx + 1 /\ UNCHANGED <<disk, pc>>
    /\ el_pc' = "idle"
    /\ UNCHANGED <<runVars, exit_code, updVars, sessVars, el_link, el_result, el_ctx, el_page,
                   otherSpecs>>

\* the checkpoint is written, the loop goes on
K_CheckpointWrite ==
    /\ prog = "enrich" /\ pc = "checkpoint"
    /\ disk' = write(disk, output_path, links)
    /\ idx' = idx + 1
    /\ pc' = "enrich_loop"
    /\ UNCHANGED <<runVars, exit_code, updVars, links, processed, sessVars, elVars, otherSpecs>>

\* the final output_path.write_text: the file is opened
K_SaveOpen ==
    /\ prog = "enrich" /\ pc = "save"
    /\ disk' = open_w(disk, output_path)
    /\ pc' = "save_write"
    /\ UNCHANGED <<runVars, exit_code, updVars, links, idx, processed, sessVars, elVars,
                   otherSpecs>>

\* the text is written; return 0
K_SaveWrite ==
    /\ prog = "enrich" /\ pc = "save_write"
    /\ disk' = write(disk, output_path, links)
    /\ Exit(0)
    /\ UNCHANGED <<runVars, updVars, links, idx, processed, sessVars, elVars, otherSpecs>>

\* the process is killed (SIGKILL, power loss): it ends where it stands
K_Kill ==
    /\ prog = "enrich" /\ pc # "exit"
    /\ Exit(137)
    /\ el_pc' = "idle"
    /\ browser' = IF browser = "open" THEN "closed" ELSE browser
    /\ UNCHANGED <<runVars, disk, updVars, links, idx, processed, launches, contexts, opened,
                   g_browsers, el_link, el_result, el_ctx, el_page, otherSpecs>>

NextCrash ==
    \/ E_Start \/ E_MissingInput \/ E_Load \/ E_Launch \/ E_Skip \/ E_CallEnrich
    \/ K_StoreEnriched \/ K_CheckpointWrite \/ E_CloseBrowser \/ K_SaveOpen \/ K_SaveWrite
    \/ K_Kill
    \/ EL_NewContext \/ EL_NewPage \/ EL_Route \/ EL_Goto \/ EL_Extract \/ EL_Finally

SpecCrash == InitCheckpoint /\ [][NextCrash]_vars

EnrichmentFields == {"title", "description", "enriched", "enrich_status"}

\* the entry as it was loaded, or as enrich_link returns it
OriginalOrEnriched(entry, original) ==
    \/ entry = original
    \/ /\ DOMAIN original \subseteq DOMAIN entry
       /\ DOMAIN entry \subseteq DOMAIN original \cup EnrichmentFields
       /\ \A f \in DOMAIN original \ EnrichmentFields : entry[f] = original[f]

CompleteStore(file, loaded) ==
    /\ file # Null
    /\ The(file) # NotJson
    /\ Len(The(file)) = Len(loaded)
    /\ \A i \in 1..Len(loaded) :
          /\ The(file)[i].url = loaded[i].url
          /\ OriginalOrEnriched(The(file)[i], loaded[i])

\* C26 (as claimed; fails on the code): when an enrich run that overwrites
\* its input has ended, by itself or killed in any state, links.json is a
\* full JSON array of the entries that were loaded, same length, urls and
\* order, each entry the original or its enriched version.
C26_StoreAlwaysComplete ==
    (/\ prog = "enrich" /\ pc = "exit"
     /\ args.output = Null /\ g_before # Null /\ The(g_before) # NotJson)
        => CompleteStore(disk.store, The(g_before))

(***************************************************************************)
(* SpecKeys: one URL keyed by extract_links.clean_url when the store is    *)
(* built, and by update_links.clean_url when the store is updated.  The    *)
(* hosts are those on which the two ESSENTIAL_PARAMS tables differ, and    *)
(* some on which they do not; the parameters are tracking names, names of  *)
(* the allowlists, and others.                                             *)
(***************************************************************************)
TableHosts ==
    { <<"h">>, <<"twitter.com">>, <<"www.", "x.com">>, <<"www.", "youtube.com">>,
      <<"open.spotify.com">>, <<"linkedin.com">> }

TablePieces ==
    { <<"s", "=", "1">>, <<"si", "=", "2">>, <<"t", "=", "3">>, <<"S", "=", "1">>,
      <<"utm_source", "=", "wa">>, <<"source", "=", "x">> }

TableUrls ==
    { <<"http:", "/", "/">> \o h \o p \o <<"?">> \o Join(ps, "&") :
        h \in TableHosts, p \in {<<>>, <<"/", "a">>},
        ps \in SeqsUpTo(TablePieces, MaxParams) \ {<<>>} }

InitKeys ==
    /\ c_module = "extract_links"
    /\ c_url \in TableUrls
    /\ c_once = Null
    /\ c_twice = Null
    /\ DedupIdle /\ ValIdle /\ MainIdle /\ SumIdle

\* extract mode keys the URL
KeyByExtract ==
    /\ c_once = Null
    /\ c_once' = Some(clean_url(c_url))
    /\ UNCHANGED <<c_module, c_url, c_twice, dedupVars, valVars, mainVars, sumVars>>

\* incremental-update mode keys the same URL
KeyByUpdate ==
    /\ c_twice = Null
    /\ c_twice' = Some(update_clean_url(c_url))
    /\ UNCHANGED <<c_module, c_url, c_once, dedupVars, valVars, mainVars, sumVars>>

NextKeys == KeyByExtract \/ KeyByUpdate

SpecKeys == InitKeys /\ [][NextKeys]_vars

\* C27: clean_url of extract_links.py and clean_url of update_links.py
\* return the same string for every URL, though extract's table has entries
\* (twitter.com and x.com with 's') that update's has not: no name of an
\* allowlist is a tracking parameter, so the allowlists never decide.
C27_CanonicalizersAgree ==
    (c_once # Null /\ c_twice # Null) => c_once = c_twice

\* a twitter.com URL with 's' (allowed by extract only) and a tracking
\* parameter: both keep s, both drop utm_source
C27_Witness ==
    /\ c_url = <<"http:", "/", "/", "twitter.com", "/", "a", "?",
                 "s", "=", "1", "&", "utm_source", "=", "wa">>
    /\ c_once = Some(<<"http:", "/", "/", "twitter.com", "/", "a", "?", "s", "=", "1">>)
    /\ c_twice = c_once

\* C28 (as claimed; fails on the code): every name of TRACKING_PARAMS,
\* linkCode and linkId included, is removed: a URL on a domain with an empty
\* allowlist that has a parameter spelled exactly as the entry canonicalizes
\* to a URL without that parameter.
C28_EveryEntryEffective ==
    (/\ c_once # Null
     /\ ~urlparse(c_url).raised
     /\ ClaimEssential(c_module, DomainOf(urlparse(c_url).netloc)) = {})
        => \A k \in NamesOf(parse_qsl(urlparse(c_url).query)) \cap TRACKING_PARAMS :
              k \notin NamesOf(parse_qsl(urlparse(The(c_once)).query))

-----------------------------------------------------------------------------
StatusFields == {"enriched", "enrich_status"}

\* C29: a failed enrichment leaves the link's content untouched.  When
\* enrich_link returns with a status other than success (timeout, error), the
\* record it returns is the input link with `enriched` and `enrich_status`
\* set and nothing else changed, title and description being the input's;
\* whatever the outcome, the link that was passed is still what it was, in
\* the caller's list too; and `enriched` is true exactly when the status is
\* success.
C29_FailureKeepsContent ==
    el_pc = "returned" =>
        /\ links[idx + 1] = el_link
        /\ el_result["enriched"] = (el_result["enrich_status"] = "success")
        /\ el_result["enrich_status"] # "success" =>
              /\ DOMAIN el_result = DOMAIN el_link \cup StatusFields
              /\ \A f \in DOMAIN el_link \ StatusFields : el_result[f] = el_link[f]

\* a page that timed out: the link had a title, and the record returned has it
C29_Witness ==
    /\ el_pc = "returned"
    /\ el_result["enrich_status"] = "timeout"
    /\ el_result["enriched"] = FALSE
    /\ el_link["title"] # <<>>
    /\ el_result["title"] = el_link["title"]

===========================================================================
